---- MODULE Spec2Model ----
(***************************************************************************)
(* A model of the para game-server simulation:                             *)
(*   - Match (src/src/game/match.cpp): per-match input processing with     *)
(*     snapshots, late-input rollback, demonstrative rollback and history  *)
(*     pruning;                                                            *)
(*   - ThreadPool / WorkStealingQueue (src/src/scheduler): workers, the    *)
(*     waitAll barrier and shutdown;                                       *)
(*   - the task pipeline of runConcurrentBenchmark (src/src/main.cpp) over *)
(*     the sharded GameServer (src/src/game/game_server.cpp).              *)
(*                                                                         *)
(* The variables are grouped (matchVars, ...); every specification starts  *)
(* the groups it does not use in their constructed state and leaves them   *)
(* unchanged.                                                              *)
(***************************************************************************)
EXTENDS Integers, Sequences, FiniteSets, TLC

(***************************************************************************)
(* Program constants.                                                      *)
(***************************************************************************)
ARENA_WIDTH == 20
ARENA_HEIGHT == 20
ROLLBACK_INTERVAL == 5
MAX_SNAPSHOTS == 10

(***************************************************************************)
(* Bounds of the model.                                                    *)
(***************************************************************************)
\* SpecMatch: calls of processInput in one run, and how many of them may be
\* late inputs drawn out of order.
MaxCalls == 100
MaxLate == 1
\* SpecSmall: calls of processInput with freely drawn inputs, and the largest
\* tick an input may carry.
MaxSmallCalls == 3
MaxWallCalls == 100
MaxSmallTick == 1
\* SpecScenario: length of the in-order run (ticks 0 .. ScenarioLen - 1).
ScenarioLen == 600
\* The pool: worker threads, the tasks the main thread submits (SpecPool) and
\* how often a self-resubmitting task of SpecPool resubmits itself.
NumWorkers == 2
MaxSubmit == 2
MaxResubmit == 1
\* stealCount counts up to MaxSteals and stays there.
MaxSteals == 1
\* SpecPoolApi: calls of shutdown the main thread makes.
MaxShutdown == 2
\* SpecDeque: items pushed on the deque.
MaxPush == 6
\* SpecSequential: inputs of the batch given to receiveInputs.
MaxBatch == 3
\* SpecServer: threads that call the server, and the inputs they give it.
NumThreads == 3
MaxReceive == 3
\* SpecLocks: the largest batch a processPending drains.
MaxDrain == 2
\* SpecPipeline: clients, matches, inputs per client and the batch size.
NumClients == 2
NumMatches == 2
InputsPerClient == 2
BatchSize == 1

VARIABLES
    match,      \* the Match object: state_, snapshots_, inputHistory_,
                \* rollbackCount_, lastSnapshotTick_
    last,       \* history variable: what the last call on the match did
    nCalls,     \* history variable: processInput calls made so far
    nLate,      \* history variable: out-of-order inputs drawn so far
    scen        \* the scenario's fixed player and action (SpecScenario)

matchVars == <<match, last, nCalls, nLate, scen>>

VARIABLES
    running,        \* ThreadPool::running_
    pendingTasks,   \* ThreadPool::pendingTasks_
    nextQueue,      \* ThreadPool::nextQueue_, kept modulo the number of workers
    stealCount,     \* ThreadPool::stealCount_, counted up to MaxSteals
    localQueues,    \* ThreadPool::localQueues_: one deque of tasks per worker
    waitMutex,      \* ThreadPool::waitMutex_: "free" or its holder
    wpc,            \* where each worker is in workerFunction
    wloc,           \* each worker's locals, those of the task it runs included
    mpc,            \* where the main thread is
    mloc,           \* the main thread's locals
    counter,        \* the shared atomic the tasks of SpecPool increment
    unfinished      \* history variable: accepted submits whose task body has
                    \* not returned yet

poolVars == <<running, pendingTasks, nextQueue, stealCount, localQueues, waitMutex,
              wpc, wloc, mpc, mloc, counter, unfinished>>

VARIABLES
    matchQueues,    \* GameServer::matchQueues_: one input queue per match
    matches,        \* GameServer::matches_
    clients,        \* ClientManager::clients_: each client's currentTick_
    clientsFinished,\* the atomic of runConcurrentBenchmark
    processedCount, \* GameServer::processedCount_
    arrival         \* history variable: per match, the inputs in the order
                    \* receiveInput appended them to its queue

pipeVars == <<matchQueues, matches, clients, clientsFinished, processedCount, arrival>>

VARIABLES
    deque,          \* a WorkStealingQueue used by one thread: its deque_
    nPushed,        \* items pushed on it so far; item k is the k-th pushed
    dlast,          \* the last operation on it and what it returned
    srv,            \* the thread that feeds a server and drains it with
                    \* processAllSequential: where it is, and its locals
    thr,            \* SpecServer: where each thread that calls the server is,
                    \* and its locals
    mutexes         \* SpecServer: the holder of each MatchQueue::mutex and of
                    \* each Match::mutex_

unitVars == <<deque, nPushed, dlast, srv, thr, mutexes>>

vars == <<matchVars, poolVars, pipeVars, unitVars>>

(***************************************************************************)
(* common/types.hpp, common/data_structures.hpp                            *)
(***************************************************************************)
Max(a, b) == IF a >= b THEN a ELSE b
Min(a, b) == IF a <= b THEN a ELSE b

ActionType == {"MOVE_LEFT", "MOVE_RIGHT", "MOVE_UP", "MOVE_DOWN"}

Input(m, player, tick, action) ==
    [matchId |-> m, playerId |-> player, tickId |-> tick, type |-> action]

\* the action a client sends at a tick: the four kinds in turn
ActionAt(tick) ==
    CASE tick % 4 = 0 -> "MOVE_LEFT"
      [] tick % 4 = 1 -> "MOVE_DOWN"
      [] tick % 4 = 2 -> "MOVE_RIGHT"
      [] tick % 4 = 3 -> "MOVE_UP"

\* A plausible slip: only the low walls clamp.
moveClampedLow(p, action) ==
    CASE action = "MOVE_LEFT"  -> [p EXCEPT !.x = Max(0, p.x - 1)]
      [] action = "MOVE_RIGHT" -> [p EXCEPT !.x = p.x + 1]
      [] action = "MOVE_UP"    -> [p EXCEPT !.y = Max(0, p.y - 1)]
      [] action = "MOVE_DOWN"  -> [p EXCEPT !.y = p.y + 1]

\* A plausible slip: no wall clamps.
moveUnclamped(p, action) ==
    CASE action = "MOVE_LEFT"  -> [p EXCEPT !.x = p.x - 1]
      [] action = "MOVE_RIGHT" -> [p EXCEPT !.x = p.x + 1]
      [] action = "MOVE_UP"    -> [p EXCEPT !.y = p.y - 1]
      [] action = "MOVE_DOWN"  -> [p EXCEPT !.y = p.y + 1]

\* PlayerState::move
move(p, action) ==
    CASE action = "MOVE_LEFT"  -> [p EXCEPT !.x = Max(0, p.x - 1)]
      [] action = "MOVE_RIGHT" -> [p EXCEPT !.x = Min(ARENA_WIDTH - 1, p.x + 1)]
      [] action = "MOVE_UP"    -> [p EXCEPT !.y = Max(0, p.y - 1)]
      [] action = "MOVE_DOWN"  -> [p EXCEPT !.y = Min(ARENA_HEIGHT - 1, p.y + 1)]

\* PlayerState::clone, MatchState::clone: field-by-field copies
clonePlayer(p) == [id |-> p.id, x |-> p.x, y |-> p.y]

clone(st) ==
    [matchId     |-> st.matchId,
     currentTick |-> st.currentTick,
     players     |-> <<clonePlayer(st.players[1]), clonePlayer(st.players[2])>>,
     isRunning   |-> st.isRunning]

\* MatchState::MatchState(int id); players[1], players[2] are the source's
\* players[0], players[1]
MatchState(id) ==
    [matchId     |-> id,
     currentTick |-> 0,
     players     |-> <<[id |-> 0, x |-> 5, y |-> 10], [id |-> 1, x |-> 15, y |-> 10]>>,
     isRunning   |-> FALSE]

\* Snapshot::Snapshot(int tick, const MatchState& s)
Snapshot(tick, st) == [tickId |-> tick, state |-> clone(st)]

(***************************************************************************)
(* game/match.cpp: the Match object as a record, its methods as operators  *)
(* from the object before the call to the object after it. Every public    *)
(* method holds mutex_ for the whole call, so a call is one step.          *)
(***************************************************************************)
\* Match::Match(int matchId)
Match(id) ==
    [state            |-> MatchState(id),
     snapshots        |-> <<>>,
     inputHistory     |-> <<>>,
     rollbackCount    |-> 0,
     lastSnapshotTick |-> -ROLLBACK_INTERVAL]

\* Match::applyInput
applyInput(st, input) ==
    LET playerIdx == (input.playerId % 2) + 1
    IN  [st EXCEPT !.players[playerIdx] = move(st.players[playerIdx], input.type)]

\* the remove_if predicate of Match::saveSnapshot
isOlder(input, oldestTick) == input.tickId < oldestTick

\* std::remove_if followed by erase: the inputs the predicate rejects are
\* kept, in their order
removeIf(hist, oldestTick) ==
    SelectSeq(hist, LAMBDA input : ~isOlder(input, oldestTick))

\* A plausible slip: the pruning threshold is read before the eldest
\* snapshot is erased.
saveSnapshotStaleThreshold(m) ==
    LET appended == Append(m.snapshots, Snapshot(m.state.currentTick, m.state))
    IN  IF Len(appended) > MAX_SNAPSHOTS
        THEN [m EXCEPT !.snapshots = Tail(appended),
                       !.inputHistory = removeIf(m.inputHistory, appended[1].tickId)]
        ELSE [m EXCEPT !.snapshots = appended]

\* A plausible slip: the eldest snapshot is never evicted.
saveSnapshotNoEviction(m) ==
    [m EXCEPT !.snapshots = Append(m.snapshots, Snapshot(m.state.currentTick, m.state))]

\* Match::saveSnapshot
saveSnapshot(m) ==
    LET appended == Append(m.snapshots, Snapshot(m.state.currentTick, m.state))
    IN  IF Len(appended) > MAX_SNAPSHOTS
        THEN LET erased == Tail(appended)
             IN  IF erased # <<>>
                 THEN [m EXCEPT !.snapshots = erased,
                                !.inputHistory =
                                    removeIf(m.inputHistory, erased[1].tickId)]
                 ELSE [m EXCEPT !.snapshots = erased]
        ELSE [m EXCEPT !.snapshots = appended]

\* the loop of Match::findSnapshotForTick: the last snapshot of the leading
\* run of snapshots with tickId <= tick (0: none)
RECURSIVE scanSnapshots(_, _, _, _)
scanSnapshots(snaps, tick, i, best) ==
    IF i > Len(snaps) THEN best
    ELSE IF snaps[i].tickId <= tick
         THEN scanSnapshots(snaps, tick, i + 1, i)
         ELSE best

\* A plausible slip: the newest snapshot is taken whatever the tick.
findNewestSnapshot(snaps, tick) == Len(snaps)

\* Match::findSnapshotForTick: an index into snaps, 0 for nullptr
findSnapshotForTick(snaps, tick) ==
    IF snaps = <<>> THEN 0
    ELSE LET best == scanSnapshots(snaps, tick, 1, 0)
         IN  IF best # 0 THEN best ELSE 1

\* the re-apply loop of the late-input branch (match.cpp:62-66) over
\* hist[a..b], front to back. It is evaluated by halves, the first half
\* before the second (the comparison of half with st makes TLC compute it
\* first), which keeps the evaluation's nesting logarithmic.
RECURSIVE reapplyFrom(_, _, _, _, _)
reapplyFrom(st, hist, a, b, fromTick) ==
    IF a > b THEN st
    ELSE IF a = b
         THEN IF hist[a].tickId >= fromTick THEN applyInput(st, hist[a]) ELSE st
         ELSE LET mid == (a + b) \div 2
                  half == reapplyFrom(st, hist, a, mid, fromTick)
              IN  IF half = st
                  THEN reapplyFrom(st, hist, mid + 1, b, fromTick)
                  ELSE reapplyFrom(half, hist, mid + 1, b, fromTick)

\* the re-simulate loop of the demonstrative rollback (match.cpp:91-95) over
\* hist[a..b], front to back: the upper limit is state_.currentTick, read
\* after state_ was restored
RECURSIVE reapplyWindow(_, _, _, _, _)
reapplyWindow(st, hist, a, b, fromTick) ==
    IF a > b THEN st
    ELSE IF a = b
         THEN IF hist[a].tickId >= fromTick /\ hist[a].tickId <= st.currentTick
              THEN applyInput(st, hist[a]) ELSE st
         ELSE LET mid == (a + b) \div 2
                  half == reapplyWindow(st, hist, a, mid, fromTick)
              IN  IF half = st
                  THEN reapplyWindow(st, hist, mid + 1, b, fromTick)
                  ELSE reapplyWindow(half, hist, mid + 1, b, fromTick)

\* Match::advanceTick
advanceTick(st) == [st EXCEPT !.currentTick = st.currentTick + 1]

\* Match::start
start(m) ==
    saveSnapshot([m EXCEPT !.state.isRunning = TRUE, !.state.currentTick = 0])

\* A plausible slip: no input is taken for late.
isLateNever(m, input) == FALSE

\* Match::processInput, lines 47-71: the input is stored, then the late-input
\* branch or the normal branch
isLate(m, input) == input.tickId < m.state.currentTick

\* A plausible slip: the replay runs over the history as it was before the
\* late input was stored.
afterBranchReplaysOld(m, input) ==
    LET m1 == [m EXCEPT !.inputHistory = Append(m.inputHistory, input)]
    IN  IF isLate(m, input)
        THEN LET m2 == [m1 EXCEPT !.rollbackCount = m1.rollbackCount + 1]
                 s  == findSnapshotForTick(m2.snapshots, input.tickId)
             IN  IF s # 0
                 THEN [m2 EXCEPT !.state = reapplyFrom(clone(m2.snapshots[s].state),
                                                       m.inputHistory, 1,
                                                       Len(m.inputHistory),
                                                       m2.snapshots[s].tickId)]
                 ELSE m2
        ELSE [m1 EXCEPT !.state = applyInput(m1.state, input)]

\* A plausible slip: the restore copies the players and keeps the tick the
\* match had reached.
afterBranchKeepsTick(m, input) ==
    LET m1 == [m EXCEPT !.inputHistory = Append(m.inputHistory, input)]
    IN  IF isLate(m, input)
        THEN LET m2 == [m1 EXCEPT !.rollbackCount = m1.rollbackCount + 1]
                 s  == findSnapshotForTick(m2.snapshots, input.tickId)
             IN  IF s # 0
                 THEN [m2 EXCEPT !.state =
                          [reapplyFrom(clone(m2.snapshots[s].state),
                                       m2.inputHistory, 1, Len(m2.inputHistory),
                                       m2.snapshots[s].tickId)
                              EXCEPT !.currentTick = m2.state.currentTick]]
                 ELSE m2
        ELSE [m1 EXCEPT !.state = applyInput(m1.state, input)]

afterBranch(m, input) ==
    LET m1 == [m EXCEPT !.inputHistory = Append(m.inputHistory, input)]
    IN  IF isLate(m, input)
        THEN LET m2 == [m1 EXCEPT !.rollbackCount = m1.rollbackCount + 1]
                 s  == findSnapshotForTick(m2.snapshots, input.tickId)
             IN  IF s # 0
                 THEN [m2 EXCEPT !.state = reapplyFrom(clone(m2.snapshots[s].state),
                                                       m2.inputHistory, 1,
                                                       Len(m2.inputHistory),
                                                       m2.snapshots[s].tickId)]
                 ELSE m2
        ELSE [m1 EXCEPT !.state = applyInput(m1.state, input)]

\* Match::processInput, line 74
afterAdvance(m, input) ==
    LET m1 == afterBranch(m, input)
    IN  [m1 EXCEPT !.state = advanceTick(m1.state)]

\* Match::processInput, line 77
atBoundary(m) == m.state.currentTick - m.lastSnapshotTick >= ROLLBACK_INTERVAL

\* Match::processInput, lines 78-79
afterSave(m) ==
    LET m1 == saveSnapshot(m)
    IN  [m1 EXCEPT !.lastSnapshotTick = m1.state.currentTick]

\* A plausible slip: the demonstrative rollback is not counted.
demoRollbackUncounted(m) ==
    IF m.state.currentTick > 0 /\ m.inputHistory # <<>>
    THEN LET rollbackTick == Max(0, m.state.currentTick - 2)
             s  == findSnapshotForTick(m.snapshots, rollbackTick)
         IN  IF s # 0
             THEN [m EXCEPT !.state = reapplyWindow(clone(m.snapshots[s].state),
                                                    m.inputHistory, 1,
                                                    Len(m.inputHistory),
                                                    m.snapshots[s].tickId)]
             ELSE m
    ELSE m

\* Match::processInput, lines 82-97: the demonstrative rollback
demoRollback(m) ==
    IF m.state.currentTick > 0 /\ m.inputHistory # <<>>
    THEN LET rollbackTick == Max(0, m.state.currentTick - 2)
             m1 == [m EXCEPT !.rollbackCount = m.rollbackCount + 1]
             s  == findSnapshotForTick(m1.snapshots, rollbackTick)
         IN  IF s # 0
             THEN [m1 EXCEPT !.state = reapplyWindow(clone(m1.snapshots[s].state),
                                                     m1.inputHistory, 1,
                                                     Len(m1.inputHistory),
                                                     m1.snapshots[s].tickId)]
             ELSE m1
    ELSE m

\* Match::processInput
processInput(m, input) ==
    IF ~m.state.isRunning THEN m
    ELSE LET m1 == afterAdvance(m, input)
         IN  IF atBoundary(m1) THEN demoRollback(afterSave(m1)) ELSE m1

(***************************************************************************)
(* scheduler/work_stealing_queue.hpp: the deque as a sequence, front first. *)
(* Each operation holds the deque's mutex for its whole body.              *)
(***************************************************************************)
NoTask == [kind |-> "none", id |-> 0]

\* WorkStealingQueue::pushBack
pushBack(q, item) == Append(q, item)

\* A plausible slip: the owner's pop takes the front.
popBackTakesFront(q) ==
    IF q = <<>>
    THEN [found |-> FALSE, item |-> NoTask, rest |-> q]
    ELSE [found |-> TRUE, item |-> Head(q), rest |-> Tail(q)]

\* WorkStealingQueue::tryPopBack: nullopt (found = FALSE) on an empty deque
tryPopBack(q) ==
    IF q = <<>>
    THEN [found |-> FALSE, item |-> NoTask, rest |-> q]
    ELSE [found |-> TRUE, item |-> q[Len(q)], rest |-> SubSeq(q, 1, Len(q) - 1)]

\* A plausible slip: the thief reads the front item and leaves it there.
popFrontKeeps(q) ==
    IF q = <<>>
    THEN [found |-> FALSE, item |-> NoTask, rest |-> q]
    ELSE [found |-> TRUE, item |-> Head(q), rest |-> q]

\* WorkStealingQueue::tryPopFront
tryPopFront(q) ==
    IF q = <<>>
    THEN [found |-> FALSE, item |-> NoTask, rest |-> q]
    ELSE [found |-> TRUE, item |-> Head(q), rest |-> Tail(q)]

\* the threads of SpecServer; NoThread holds a free mutex
Threads == 0..(NumThreads - 1)
NoThread == -1

\* the mutexes of a server of NumMatches matches: MatchQueue::mutex and
\* Match::mutex_ of each match
QueueMutex(m) == <<"queue", m>>
MatchMutex(m) == <<"match", m>>
ServerMutexes == {QueueMutex(m) : m \in 0..(NumMatches - 1)}
                   \cup {MatchMutex(m) : m \in 0..(NumMatches - 1)}

\* a thread that is in no call of the server
ThreadIdle ==
    [pc |-> "idle", op |-> "none", m |-> 0, want |-> QueueMutex(0), next |-> "idle",
     input |-> Input(0, 0, 0, "MOVE_LEFT"), localQueue |-> <<>>, i |-> 0, total |-> 0]

\* no operation made yet
NoOp == [op |-> "none", found |-> FALSE, item |-> NoTask, before |-> <<>>]

\* WorkStealingQueue::WorkStealingQueue: an empty deque
UnitsConstructed ==
    /\ deque = <<>>
    /\ nPushed = 0
    /\ dlast = NoOp
    /\ srv = [pc |-> "receive", nReceived |-> 0, nInRange |-> 0, i |-> 0,
              hasWork |-> FALSE, dropped |-> FALSE, before |-> <<>>]
    /\ thr = [t \in Threads |-> ThreadIdle]
    /\ mutexes = [x \in ServerMutexes |-> NoThread]

\* one thread calls pushBack with the next item
DequePushBack ==
    /\ nPushed < MaxPush
    /\ deque' = pushBack(deque, nPushed + 1)
    /\ nPushed' = nPushed + 1
    /\ dlast' = [op |-> "pushBack", found |-> TRUE, item |-> nPushed + 1, before |-> deque]
    /\ UNCHANGED <<srv, thr, mutexes, matchVars, poolVars, pipeVars>>

\* one thread calls tryPopBack
DequePopBack ==
    /\ LET r == tryPopBack(deque)
       IN  /\ deque' = r.rest
           /\ dlast' = [op |-> "tryPopBack", found |-> r.found, item |-> r.item, before |-> deque]
    /\ UNCHANGED <<nPushed, srv, thr, mutexes, matchVars, poolVars, pipeVars>>

\* one thread calls tryPopFront
DequePopFront ==
    /\ LET r == tryPopFront(deque)
       IN  /\ deque' = r.rest
           /\ dlast' = [op |-> "tryPopFront", found |-> r.found, item |-> r.item, before |-> deque]
    /\ UNCHANGED <<nPushed, srv, thr, mutexes, matchVars, poolVars, pipeVars>>

(***************************************************************************)
(* scheduler/thread_pool.hpp                                               *)
(***************************************************************************)
Workers == 0..(NumWorkers - 1)

\* the tasks of SpecPool: one that increments the shared counter, and one
\* that increments it and resubmits itself id more times
IncrTask == [kind |-> "incr", id |-> 0]
ResubTask(k) == [kind |-> "resub", id |-> k]

\* the main thread's last call of submit or submitTo, with the worker id
\* it passed to submitTo
ApiCall(op, workerId) == [op |-> op, worker |-> workerId]
NoApiCall == ApiCall("none", 0)

IdleLocals ==
    [task |-> NoTask, attempts |-> 0, sub |-> NoTask, batch |-> <<>>,
     localQueue |-> <<>>, allClientsDone |-> FALSE, scan |-> 0, total |-> 0]

\* ThreadPool::ThreadPool: the workers are started, nothing is submitted
PoolConstructed ==
    /\ running = TRUE
    /\ pendingTasks = 0
    /\ nextQueue = 0
    /\ stealCount = 0
    /\ localQueues = [w \in Workers |-> <<>>]
    /\ waitMutex = "free"
    /\ wpc = [w \in Workers |-> "loop"]
    /\ wloc = [w \in Workers |-> IdleLocals]
    /\ mpc = "ready"
    /\ mloc = [sub |-> NoTask, nSubmitted |-> 0, expected |-> 0,
               call |-> NoApiCall, nShutdown |-> 0]
    /\ counter = 0
    /\ unfinished = 0

\* A plausible slip: the barrier opens one task early.
waitAllDoneEarly(p) == p <= 1

\* the predicate of waitAll (thread_pool.hpp:88-90)
waitAllDone(p) == p = 0

\* the predicate of the worker's park (thread_pool.hpp:162-164)
parkOver(r, p) == ~r \/ p > 0

\* A plausible slip: the worker's loop does not test running_.
WorkerLoopForever(w) ==
    /\ wpc[w] = "loop"
    /\ wpc' = [wpc EXCEPT ![w] = "pop"]
    /\ UNCHANGED <<running, pendingTasks, nextQueue, stealCount, localQueues,
                   waitMutex, wloc, mpc, mloc, counter, unfinished>>

\* workerFunction, line 126: while (running_)
WorkerLoop(w) ==
    /\ wpc[w] = "loop"
    /\ wpc' = [wpc EXCEPT ![w] = IF running THEN "pop" ELSE "done"]
    /\ UNCHANGED <<running, pendingTasks, nextQueue, stealCount, localQueues,
                   waitMutex, wloc, mpc, mloc, counter, unfinished>>

\* workerFunction, lines 130-134: the local pop
WorkerPopLocal(w) ==
    /\ wpc[w] = "pop"
    /\ LET r == tryPopBack(localQueues[w])
       IN  /\ localQueues' = [localQueues EXCEPT ![w] = r.rest]
           /\ wloc' = [wloc EXCEPT ![w].task = r.item, ![w].attempts = 0]
           /\ wpc' = [wpc EXCEPT ![w] = IF r.found THEN "run" ELSE "steal"]
    /\ UNCHANGED <<running, pendingTasks, nextQueue, stealCount, waitMutex, mpc,
                   mloc, counter, unfinished>>

\* A plausible slip: the count is taken per attempt on a victim, found or
\* not.
WorkerStealCountsAttempts(w) ==
    /\ wpc[w] = "steal"
    /\ \E victim \in Workers :
          LET r == IF victim # w
                   THEN tryPopFront(localQueues[victim])
                   ELSE [found |-> FALSE, item |-> NoTask, rest |-> localQueues[victim]]
          IN  /\ stealCount' = IF victim # w THEN Min(stealCount + 1, MaxSteals)
                               ELSE stealCount
              /\ IF r.found
                 THEN /\ localQueues' = [localQueues EXCEPT ![victim] = r.rest]
                      /\ wloc' = [wloc EXCEPT ![w].task = r.item, ![w].attempts = 0]
                      /\ wpc' = [wpc EXCEPT ![w] = "run"]
                 ELSE /\ wloc' = [wloc EXCEPT ![w].attempts =
                                     IF wloc[w].attempts + 1 < NumWorkers * 2
                                     THEN wloc[w].attempts + 1 ELSE 0]
                      /\ wpc' = [wpc EXCEPT ![w] =
                                     IF wloc[w].attempts + 1 < NumWorkers * 2
                                     THEN "steal" ELSE "park"]
                      /\ UNCHANGED localQueues
    /\ UNCHANGED <<running, pendingTasks, nextQueue, waitMutex, mpc, mloc,
                   counter, unfinished>>

\* workerFunction, lines 137-149: one steal attempt on a victim the random
\* generator draws; after 2N attempts without a task the worker parks
WorkerSteal(w) ==
    /\ wpc[w] = "steal"
    /\ \E victim \in Workers :
          LET r == IF victim # w
                   THEN tryPopFront(localQueues[victim])
                   ELSE [found |-> FALSE, item |-> NoTask, rest |-> localQueues[victim]]
          IN  IF r.found
              THEN /\ localQueues' = [localQueues EXCEPT ![victim] = r.rest]
                   /\ wloc' = [wloc EXCEPT ![w].task = r.item, ![w].attempts = 0]
                   /\ stealCount' = Min(stealCount + 1, MaxSteals)
                   /\ wpc' = [wpc EXCEPT ![w] = "run"]
              ELSE /\ wloc' = [wloc EXCEPT ![w].attempts =
                                  IF wloc[w].attempts + 1 < NumWorkers * 2
                                  THEN wloc[w].attempts + 1 ELSE 0]
                   /\ wpc' = [wpc EXCEPT ![w] =
                                  IF wloc[w].attempts + 1 < NumWorkers * 2
                                  THEN "steal" ELSE "park"]
                   /\ UNCHANGED <<localQueues, stealCount>>
    /\ UNCHANGED <<running, pendingTasks, nextQueue, waitMutex, mpc, mloc,
                   counter, unfinished>>

\* the body of a counter-incrementing task
RunIncr(w) ==
    /\ wpc[w] = "run"
    /\ wloc[w].task.kind = "incr"
    /\ counter' = counter + 1
    /\ unfinished' = unfinished - 1
    /\ wpc' = [wpc EXCEPT ![w] = "dec"]
    /\ UNCHANGED <<running, pendingTasks, nextQueue, stealCount, localQueues,
                   waitMutex, wloc, mpc, mloc>>

\* the body of a self-resubmitting task: increment, then submit the next
\* copy as its last action
RunResub(w) ==
    /\ wpc[w] = "run"
    /\ wloc[w].task.kind = "resub"
    /\ counter' = counter + 1
    /\ IF wloc[w].task.id > 0
       THEN /\ wloc' = [wloc EXCEPT ![w].sub = ResubTask(wloc[w].task.id - 1)]
            /\ wpc' = [wpc EXCEPT ![w] = "submit"]
            /\ UNCHANGED unfinished
       ELSE /\ wpc' = [wpc EXCEPT ![w] = "dec"]
            /\ unfinished' = unfinished - 1
            /\ UNCHANGED wloc
    /\ UNCHANGED <<running, pendingTasks, nextQueue, stealCount, localQueues,
                   waitMutex, mpc, mloc>>

\* A plausible slip: a resubmission that goes straight to the push, past
\* the count of pending tasks.
WorkerSubmitUncounted(w) ==
    /\ wpc[w] = "submit"
    /\ IF running
       THEN /\ unfinished' = unfinished + 1
            /\ wpc' = [wpc EXCEPT ![w] = "push"]
            /\ UNCHANGED wloc
       ELSE /\ wpc' = [wpc EXCEPT ![w] = "dec"]
            /\ wloc' = [wloc EXCEPT ![w].sub = NoTask]
            /\ unfinished' = unfinished - 1
    /\ UNCHANGED <<running, pendingTasks, nextQueue, stealCount, localQueues,
                   waitMutex, mpc, mloc, counter>>

\* ThreadPool::submit called by a running task as its last action, lines
\* 60-62: dropped when the pool is not running, else counted as pending
WorkerSubmit(w) ==
    /\ wpc[w] = "submit"
    /\ IF running
       THEN /\ pendingTasks' = pendingTasks + 1
            /\ unfinished' = unfinished + 1
            /\ wpc' = [wpc EXCEPT ![w] = "push"]
            /\ UNCHANGED wloc
       ELSE /\ wpc' = [wpc EXCEPT ![w] = "dec"]
            /\ wloc' = [wloc EXCEPT ![w].sub = NoTask]
            /\ unfinished' = unfinished - 1
            /\ UNCHANGED pendingTasks
    /\ UNCHANGED <<running, nextQueue, stealCount, localQueues, waitMutex, mpc,
                   mloc, counter>>

\* A plausible slip: the submit is not the task's last action, the body
\* runs on after it.
WorkerPushThenRunsOn(w) ==
    /\ wpc[w] = "push"
    /\ localQueues' = [localQueues EXCEPT ![nextQueue] = pushBack(@, wloc[w].sub)]
    /\ nextQueue' = (nextQueue + 1) % NumWorkers
    /\ wloc' = [wloc EXCEPT ![w].sub = NoTask]
    /\ wpc' = [wpc EXCEPT ![w] = "run"]
    /\ UNCHANGED <<running, pendingTasks, stealCount, waitMutex, mpc, mloc,
                   counter, unfinished>>

\* ThreadPool::submit, lines 65-69: the round-robin index, the push and
\* notify_one (a parked worker's wait is bounded, so WorkerUnpark covers
\* the wake-up); the submitting task's body returns
WorkerPush(w) ==
    /\ wpc[w] = "push"
    /\ localQueues' = [localQueues EXCEPT ![nextQueue] = pushBack(@, wloc[w].sub)]
    /\ nextQueue' = (nextQueue + 1) % NumWorkers
    /\ wloc' = [wloc EXCEPT ![w].sub = NoTask]
    /\ unfinished' = unfinished - 1
    /\ wpc' = [wpc EXCEPT ![w] = "dec"]
    /\ UNCHANGED <<running, pendingTasks, stealCount, waitMutex, mpc, mloc,
                   counter>>

\* workerFunction, lines 156-158: fetch_sub after the task returned, and
\* notify_all on waitCv_ when the count went from 1 to 0. waitMutex_ is not
\* taken: a waiter that is not blocked yet misses the notification.
WorkerDec(w) ==
    /\ wpc[w] = "dec"
    /\ pendingTasks' = pendingTasks - 1
    /\ mpc' = IF pendingTasks = 1 /\ mpc = "blocked" THEN "woken" ELSE mpc
    /\ wloc' = [wloc EXCEPT ![w] = IdleLocals]
    /\ wpc' = [wpc EXCEPT ![w] = "loop"]
    /\ UNCHANGED <<running, nextQueue, stealCount, localQueues, waitMutex, mloc,
                   counter, unfinished>>

\* workerFunction, lines 161-164: lock waitMutex_ and test the predicate;
\* when it is false the worker sleeps on cv_ and the mutex is free again
WorkerPark(w) ==
    /\ wpc[w] = "park"
    /\ waitMutex = "free"
    /\ wpc' = [wpc EXCEPT ![w] = IF parkOver(running, pendingTasks) THEN "loop" ELSE "parked"]
    /\ UNCHANGED <<running, pendingTasks, nextQueue, stealCount, localQueues,
                   waitMutex, wloc, mpc, mloc, counter, unfinished>>

\* A plausible slip: the park is a wait without timeout, and the notify_one
\* of the submit came before the worker slept: only the notify_all of
\* shutdown wakes it.
WorkerUnparkNotifiedOnly(w) ==
    /\ wpc[w] = "parked"
    /\ waitMutex = "free"
    /\ ~running
    /\ wpc' = [wpc EXCEPT ![w] = "loop"]
    /\ UNCHANGED <<running, pendingTasks, nextQueue, stealCount, localQueues,
                   waitMutex, wloc, mpc, mloc, counter, unfinished>>

\* wait_for returns: by the 100 microsecond timeout or by a notification,
\* after taking waitMutex_ again
WorkerUnpark(w) ==
    /\ wpc[w] = "parked"
    /\ waitMutex = "free"
    /\ wpc' = [wpc EXCEPT ![w] = "loop"]
    /\ UNCHANGED <<running, pendingTasks, nextQueue, stealCount, localQueues,
                   waitMutex, wloc, mpc, mloc, counter, unfinished>>

\* the steps of workerFunction and of submit that every specification of
\* the pool has
WorkerCycle(w) ==
    \/ WorkerLoop(w)
    \/ WorkerPopLocal(w)
    \/ WorkerSteal(w)
    \/ WorkerSubmit(w)
    \/ WorkerPush(w)
    \/ WorkerDec(w)
    \/ WorkerPark(w)
    \/ WorkerUnpark(w)

\* how often the body of a task of SpecPool and of its resubmitted copies runs
runsOf(task) == IF task.kind = "resub" THEN task.id + 1
                ELSE IF task.kind = "incr" THEN 1 ELSE 0

\* ThreadPool::submit called by the main thread, lines 60-62
MainSubmit(task) ==
    /\ mpc = "ready"
    /\ IF running
       THEN /\ pendingTasks' = pendingTasks + 1
            /\ unfinished' = unfinished + 1
            /\ mloc' = [mloc EXCEPT !.sub = task, !.nSubmitted = @ + 1,
                                    !.expected = @ + runsOf(task),
                                    !.call = ApiCall("submit", 0)]
            /\ mpc' = "push"
       ELSE /\ mloc' = [mloc EXCEPT !.nSubmitted = @ + 1,
                                    !.call = ApiCall("submit", 0)]
            /\ UNCHANGED <<pendingTasks, unfinished, mpc>>
    /\ UNCHANGED <<running, nextQueue, stealCount, localQueues, waitMutex, wpc,
                   wloc, counter>>

\* ThreadPool::submit, lines 65-69
MainPush ==
    /\ mpc = "push"
    /\ localQueues' = [localQueues EXCEPT ![nextQueue] = pushBack(@, mloc.sub)]
    /\ nextQueue' = (nextQueue + 1) % NumWorkers
    /\ mloc' = [mloc EXCEPT !.sub = NoTask]
    /\ mpc' = "ready"
    /\ UNCHANGED <<running, pendingTasks, stealCount, waitMutex, wpc, wloc,
                   counter, unfinished>>

\* ThreadPool::waitAll, lines 87-90: lock waitMutex_ and test the predicate
\* (on entry and after every wake-up). When it is false the caller holds the
\* mutex until it blocks.
MainWaitCheck ==
    /\ mpc \in {"ready", "woken"}
    /\ waitMutex = "free"
    /\ IF waitAllDone(pendingTasks)
       THEN mpc' = "returned" /\ UNCHANGED waitMutex
       ELSE mpc' = "prewait" /\ waitMutex' = "main"
    /\ UNCHANGED <<running, pendingTasks, nextQueue, stealCount, localQueues,
                   wpc, wloc, mloc, counter, unfinished>>

\* condition_variable::wait: release waitMutex_ and block on waitCv_
MainBlock ==
    /\ mpc = "prewait"
    /\ waitMutex' = "free"
    /\ mpc' = "blocked"
    /\ UNCHANGED <<running, pendingTasks, nextQueue, stealCount, localQueues,
                   wpc, wloc, mloc, counter, unfinished>>

\* a spurious wake-up of the blocked caller: allowed, never promised
MainSpuriousWake ==
    /\ mpc = "blocked"
    /\ mpc' = "woken"
    /\ UNCHANGED <<running, pendingTasks, nextQueue, stealCount, localQueues,
                   waitMutex, wpc, wloc, mloc, counter, unfinished>>

\* ThreadPool::shutdown, lines 97-99, called by the destructor once waitAll
\* has returned
MainShutdown ==
    /\ mpc = "returned"
    /\ running' = FALSE
    /\ mpc' = IF running THEN "join" ELSE "joined"
    /\ UNCHANGED <<pendingTasks, nextQueue, stealCount, localQueues, waitMutex,
                   wpc, wloc, mloc, counter, unfinished>>

\* ThreadPool::shutdown, lines 101-105: every worker has left its loop
MainJoin ==
    /\ mpc = "join"
    /\ \A w \in Workers : wpc[w] = "done"
    /\ mpc' = "joined"
    /\ UNCHANGED <<running, pendingTasks, nextQueue, stealCount, localQueues,
                   waitMutex, wpc, wloc, mloc, counter, unfinished>>

\* A plausible slip: submitTo wraps the worker id instead of testing it.
MainSubmitToWrapped(workerId, task) ==
    /\ mpc = "ready"
    /\ IF running
       THEN /\ pendingTasks' = pendingTasks + 1
            /\ unfinished' = unfinished + 1
            /\ mloc' = [mloc EXCEPT !.sub = task, !.nSubmitted = @ + 1,
                                    !.expected = @ + runsOf(task),
                                    !.call = ApiCall("submitTo", workerId % NumWorkers)]
            /\ mpc' = "pushTo"
       ELSE /\ mloc' = [mloc EXCEPT !.nSubmitted = @ + 1,
                                    !.call = ApiCall("submitTo", workerId)]
            /\ UNCHANGED <<pendingTasks, unfinished, mpc>>
    /\ UNCHANGED <<running, nextQueue, stealCount, localQueues, waitMutex, wpc,
                   wloc, counter>>

\* ThreadPool::submitTo called by the main thread, lines 76-78: ignored
\* when the pool is not running or the worker id is out of range
MainSubmitTo(workerId, task) ==
    /\ mpc = "ready"
    /\ IF running /\ workerId < NumWorkers
       THEN /\ pendingTasks' = pendingTasks + 1
            /\ unfinished' = unfinished + 1
            /\ mloc' = [mloc EXCEPT !.sub = task, !.nSubmitted = @ + 1,
                                    !.expected = @ + runsOf(task),
                                    !.call = ApiCall("submitTo", workerId)]
            /\ mpc' = "pushTo"
       ELSE /\ mloc' = [mloc EXCEPT !.nSubmitted = @ + 1,
                                    !.call = ApiCall("submitTo", workerId)]
            /\ UNCHANGED <<pendingTasks, unfinished, mpc>>
    /\ UNCHANGED <<running, nextQueue, stealCount, localQueues, waitMutex, wpc,
                   wloc, counter>>

\* ThreadPool::submitTo, lines 79-80: the push on the chosen worker's deque
\* and notify_one
MainPushTo ==
    /\ mpc = "pushTo"
    /\ localQueues' = [localQueues EXCEPT ![mloc.call.worker] = pushBack(@, mloc.sub)]
    /\ mloc' = [mloc EXCEPT !.sub = NoTask]
    /\ mpc' = "ready"
    /\ UNCHANGED <<running, pendingTasks, nextQueue, stealCount, waitMutex, wpc,
                   wloc, counter, unfinished>>

\* A plausible slip: shutdown stores false without looking at the old
\* value, and goes on to notify and to the join loop.
MainShutdownCallBlind ==
    /\ mpc = "ready"
    /\ running' = FALSE
    /\ mpc' = "join"
    /\ mloc' = [mloc EXCEPT !.nShutdown = @ + 1]
    /\ UNCHANGED <<pendingTasks, nextQueue, stealCount, localQueues, waitMutex,
                   wpc, wloc, counter, unfinished>>

\* ThreadPool::shutdown called by the main thread at any moment, lines
\* 97-99: the exchange; a call that finds the pool shut down returns at once
MainShutdownCall ==
    /\ mpc = "ready"
    /\ running' = FALSE
    /\ mpc' = IF running THEN "join" ELSE "ready"
    /\ mloc' = [mloc EXCEPT !.nShutdown = @ + 1]
    /\ UNCHANGED <<pendingTasks, nextQueue, stealCount, localQueues, waitMutex,
                   wpc, wloc, counter, unfinished>>

\* ThreadPool::shutdown has joined the workers and returns to its caller
MainShutdownReturn ==
    /\ mpc = "joined"
    /\ mpc' = "ready"
    /\ UNCHANGED <<running, pendingTasks, nextQueue, stealCount, localQueues,
                   waitMutex, wpc, wloc, mloc, counter, unfinished>>

\* the main thread's steps that follow its submits
MainBarrier ==
    \/ MainWaitCheck
    \/ MainBlock
    \/ MainShutdown
    \/ MainJoin

(***************************************************************************)
(* client/client.hpp, game/game_server.cpp, tasks/client_task.hpp,         *)
(* tasks/match_task.hpp and runConcurrentBenchmark of main.cpp: the        *)
(* pipelined benchmark.                                                    *)
(***************************************************************************)
ClientTask(i) == [kind |-> "client", id |-> i]
MatchTask(m) == [kind |-> "match", id |-> m]

\* ClientManager::ClientManager: two clients per match, wrapped into the
\* matches there are
clientMatchId(i) ==
    IF i \div 2 >= NumMatches THEN (i \div 2) % NumMatches ELSE i \div 2

clientPlayerId(i) == i % 2

\* GameServer::GameServer and GameServer::start, ClientManager::ClientManager
\* and the clientsFinished atomic of runConcurrentBenchmark
PipelineConstructed(nClients, nMatches) ==
    /\ matchQueues = [m \in 0..(nMatches - 1) |-> <<>>]
    /\ matches = [m \in 0..(nMatches - 1) |-> start(Match(m))]
    /\ clients = [i \in 0..(nClients - 1) |-> 0]
    /\ clientsFinished = 0
    /\ processedCount = 0
    /\ arrival = [m \in 0..(nMatches - 1) |-> <<>>]

\* the action the client's generator draws at a tick: the generator is
\* seeded with the client id, so the draw is a fixed function of both
drawAction(i, tick) == ActionAt(i + tick)

\* Client::generateBatch: the next min(batchSize, remaining) inputs, ticks
\* counting on from the cursor
generateBatch(i, cursor, batchSize) ==
    [k \in 1..Min(batchSize, Max(InputsPerClient - cursor, 0)) |->
        Input(clientMatchId(i), clientPlayerId(i), cursor + k - 1,
              drawAction(i, cursor + k - 1))]

\* Client::isFinished: the cursor is exhausted
isFinished(cursor) == cursor >= InputsPerClient

\* A plausible slip: the consumer stops as soon as either half holds.
keepRunningBoth(allClientsDone, queueEmpty) == ~allClientsDone /\ ~queueEmpty

\* MatchTask::operator(), line 33: resubmit unless all clients are done and
\* nothing is pending
keepRunning(allClientsDone, queueEmpty) == ~allClientsDone \/ ~queueEmpty

\* A plausible slip: the range test starts above match 0.
inRangeFromOne(m, numMatches) == m > 0 /\ m < numMatches

\* GameServer::receiveInput, line 25: the range test
inRange(m, numMatches) == m >= 0 /\ m < numMatches

\* GameServer::receiveInput: the input is pushed on its match's queue under
\* that queue's mutex; an input of no match is dropped
receiveInput(queues, input, numMatches) ==
    IF inRange(input.matchId, numMatches)
    THEN [queues EXCEPT ![input.matchId] = Append(@, input)]
    ELSE queues

\* GameServer::processPending, lines 52-57, run by one thread to its end:
\* the inputs of the local queue go through processInput front first
RECURSIVE drainInto(_, _)
drainInto(m, localQueue) ==
    IF localQueue = <<>> THEN m
    ELSE drainInto(processInput(m, Head(localQueue)), Tail(localQueue))

\* ClientTask::operator(), line 24: the next batch is generated and the
\* client's cursor advances
RunClient(w) ==
    /\ wpc[w] = "run"
    /\ wloc[w].task.kind = "client"
    /\ LET i == wloc[w].task.id
           batch == generateBatch(i, clients[i], BatchSize)
       IN  /\ clients' = [clients EXCEPT ![i] = @ + Len(batch)]
           /\ wloc' = [wloc EXCEPT ![w].batch = batch]
           /\ wpc' = [wpc EXCEPT ![w] = IF batch = <<>> THEN "fin" ELSE "recv"]
    /\ UNCHANGED <<running, pendingTasks, nextQueue, stealCount, localQueues,
                   waitMutex, mpc, mloc, counter, unfinished, matchQueues,
                   matches, clientsFinished, processedCount>>
    /\ UNCHANGED arrival

\* GameServer::receiveInputs, one GameServer::receiveInput per step: the
\* input is pushed on its match's queue under that queue's mutex
ClientReceive(w) ==
    /\ wpc[w] = "recv"
    /\ matchQueues' = receiveInput(matchQueues, Head(wloc[w].batch), NumMatches)
    /\ arrival' = receiveInput(arrival, Head(wloc[w].batch), NumMatches)
    /\ wloc' = [wloc EXCEPT ![w].batch = Tail(@)]
    /\ wpc' = [wpc EXCEPT ![w] = IF Tail(wloc[w].batch) = <<>> THEN "fin" ELSE "recv"]
    /\ UNCHANGED <<running, pendingTasks, nextQueue, stealCount, localQueues,
                   waitMutex, mpc, mloc, counter, unfinished, matches, clients,
                   clientsFinished, processedCount>>

\* A plausible slip: the client is counted as finished on every run of its
\* task.
ClientFinishCountsEveryRun(w) ==
    /\ wpc[w] = "fin"
    /\ clientsFinished' = clientsFinished + 1
    /\ IF ~isFinished(clients[wloc[w].task.id])
       THEN /\ wloc' = [wloc EXCEPT ![w].sub = wloc[w].task]
            /\ wpc' = [wpc EXCEPT ![w] = "submit"]
            /\ UNCHANGED unfinished
       ELSE /\ unfinished' = unfinished - 1
            /\ wpc' = [wpc EXCEPT ![w] = "dec"]
            /\ UNCHANGED wloc
    /\ UNCHANGED <<running, pendingTasks, nextQueue, stealCount, localQueues,
                   waitMutex, mpc, mloc, counter, matchQueues, matches, clients,
                   processedCount>>
    /\ UNCHANGED arrival

\* ClientTask::operator(), lines 30-35: resubmit, or count the client as
\* finished and return
ClientFinish(w) ==
    /\ wpc[w] = "fin"
    /\ IF ~isFinished(clients[wloc[w].task.id])
       THEN /\ wloc' = [wloc EXCEPT ![w].sub = wloc[w].task]
            /\ wpc' = [wpc EXCEPT ![w] = "submit"]
            /\ UNCHANGED <<clientsFinished, unfinished>>
       ELSE /\ clientsFinished' = clientsFinished + 1
            /\ unfinished' = unfinished - 1
            /\ wpc' = [wpc EXCEPT ![w] = "dec"]
            /\ UNCHANGED wloc
    /\ UNCHANGED <<running, pendingTasks, nextQueue, stealCount, localQueues,
                   waitMutex, mpc, mloc, counter, matchQueues, matches, clients,
                   processedCount>>
    /\ UNCHANGED arrival

\* GameServer::processPending, lines 38-47: under the queue's mutex, return
\* on an empty queue, else swap it into the local queue
RunMatch(w) ==
    /\ wpc[w] = "run"
    /\ wloc[w].task.kind = "match"
    /\ LET m == wloc[w].task.id
       IN  IF m < 0 \/ m >= NumMatches \/ matchQueues[m] = <<>>
           THEN /\ wpc' = [wpc EXCEPT ![w] = "check"]
                /\ UNCHANGED <<matchQueues, wloc>>
           ELSE /\ wloc' = [wloc EXCEPT ![w].localQueue = matchQueues[m]]
                /\ matchQueues' = [matchQueues EXCEPT ![m] = <<>>]
                /\ wpc' = [wpc EXCEPT ![w] = "drain"]
    /\ UNCHANGED <<running, pendingTasks, nextQueue, stealCount, localQueues,
                   waitMutex, mpc, mloc, counter, unfinished, matches, clients,
                   clientsFinished, processedCount>>
    /\ UNCHANGED arrival

\* A plausible slip: the local queue is drained from its back.
MatchDrainNewestFirst(w) ==
    /\ wpc[w] = "drain"
    /\ LET n == Len(wloc[w].localQueue)
       IN  /\ matches' = [matches EXCEPT ![wloc[w].task.id] =
                             processInput(@, wloc[w].localQueue[n])]
           /\ processedCount' = processedCount + 1
           /\ wloc' = [wloc EXCEPT ![w].localQueue = SubSeq(@, 1, n - 1)]
           /\ wpc' = [wpc EXCEPT ![w] = IF n = 1 THEN "check" ELSE "drain"]
    /\ UNCHANGED <<running, pendingTasks, nextQueue, stealCount, localQueues,
                   waitMutex, mpc, mloc, counter, unfinished, matchQueues,
                   clients, clientsFinished>>
    /\ UNCHANGED arrival

\* A plausible slip: an if in place of the while, so that a drain applies
\* the first input of its batch and drops the others with its local queue.
MatchDrainFirstOnly(w) ==
    /\ wpc[w] = "drain"
    /\ matches' = [matches EXCEPT ![wloc[w].task.id] =
                      processInput(@, Head(wloc[w].localQueue))]
    /\ processedCount' = processedCount + 1
    /\ wloc' = [wloc EXCEPT ![w].localQueue = <<>>]
    /\ wpc' = [wpc EXCEPT ![w] = "check"]
    /\ UNCHANGED <<running, pendingTasks, nextQueue, stealCount, localQueues,
                   waitMutex, mpc, mloc, counter, unfinished, matchQueues,
                   clients, clientsFinished>>
    /\ UNCHANGED arrival

\* GameServer::processPending, lines 52-57: one input of the local queue.
\* Only the one consumer task of a match touches the match, so processInput
\* and the count's fetch_add are taken as one step.
MatchDrain(w) ==
    /\ wpc[w] = "drain"
    /\ matches' = [matches EXCEPT ![wloc[w].task.id] =
                      processInput(@, Head(wloc[w].localQueue))]
    /\ processedCount' = processedCount + 1
    /\ wloc' = [wloc EXCEPT ![w].localQueue = Tail(@)]
    /\ wpc' = [wpc EXCEPT ![w] = IF Tail(wloc[w].localQueue) = <<>> THEN "check" ELSE "drain"]
    /\ UNCHANGED <<running, pendingTasks, nextQueue, stealCount, localQueues,
                   waitMutex, mpc, mloc, counter, unfinished, matchQueues,
                   clients, clientsFinished>>
    /\ UNCHANGED arrival

\* MatchTask::operator(), line 30: the load of clientsFinished
MatchCheck(w) ==
    /\ wpc[w] = "check"
    /\ wloc' = [wloc EXCEPT ![w].allClientsDone = (clientsFinished = NumClients),
                            ![w].scan = 0, ![w].total = 0]
    /\ wpc' = [wpc EXCEPT ![w] = "scan"]
    /\ UNCHANGED <<running, pendingTasks, nextQueue, stealCount, localQueues,
                   waitMutex, mpc, mloc, counter, unfinished, matchQueues,
                   matches, clients, clientsFinished, processedCount>>
    /\ UNCHANGED arrival

\* GameServer::getPendingCount, one queue per step, each under its own
\* mutex; after the last queue MatchTask::operator(), lines 31-37
MatchScan(w) ==
    /\ wpc[w] = "scan"
    /\ LET total == wloc[w].total + Len(matchQueues[wloc[w].scan])
       IN  IF wloc[w].scan + 1 < NumMatches
           THEN /\ wloc' = [wloc EXCEPT ![w].scan = @ + 1, ![w].total = total]
                /\ UNCHANGED <<wpc, unfinished>>
           ELSE IF keepRunning(wloc[w].allClientsDone, total = 0)
                THEN /\ wloc' = [wloc EXCEPT ![w] = [IdleLocals EXCEPT
                                     !.task = wloc[w].task, !.sub = wloc[w].task]]
                     /\ wpc' = [wpc EXCEPT ![w] = "submit"]
                     /\ UNCHANGED unfinished
                ELSE /\ wloc' = [wloc EXCEPT ![w] = [IdleLocals EXCEPT !.task = wloc[w].task]]
                     /\ wpc' = [wpc EXCEPT ![w] = "dec"]
                     /\ unfinished' = unfinished - 1
    /\ UNCHANGED <<running, pendingTasks, nextQueue, stealCount, localQueues,
                   waitMutex, mpc, mloc, counter, matchQueues, matches, clients,
                   clientsFinished, processedCount>>
    /\ UNCHANGED arrival

\* GameServer::receiveInputs called by the feeding thread: one
\* GameServer::receiveInput of the batch, for any match id, in range or not
SeqReceive ==
    /\ srv.pc = "receive"
    /\ srv.nReceived < MaxBatch
    /\ \E m \in -1..NumMatches :
          LET input == Input(m, srv.nReceived % 2, srv.nReceived, ActionAt(srv.nReceived))
          IN  /\ matchQueues' = receiveInput(matchQueues, input, NumMatches)
              /\ arrival' = receiveInput(arrival, input, NumMatches)
              /\ srv' = [srv EXCEPT !.nReceived = @ + 1,
                                    !.nInRange = IF m \in 0..(NumMatches - 1) THEN @ + 1 ELSE @,
                                    !.dropped = m \notin 0..(NumMatches - 1),
                                    !.before = <<matchQueues, matches, processedCount>>]
    /\ UNCHANGED <<matches, clients, clientsFinished, processedCount>>
    /\ UNCHANGED <<deque, nPushed, dlast, thr, mutexes, matchVars, poolVars>>

\* GameServer::processAllSequential is called: the first pass begins
SeqBegin ==
    /\ srv.pc = "receive"
    /\ srv' = [srv EXCEPT !.pc = "pass", !.i = 0, !.hasWork = FALSE,
                          !.dropped = FALSE, !.before = <<>>]
    /\ UNCHANGED <<pipeVars, deque, nPushed, dlast, thr, mutexes, matchVars, poolVars>>

\* GameServer::processAllSequential, lines 64-73: one match of the pass.
\* hasWork is set by a queue that is not empty and stays set for the matches
\* after it; processPending(i) then drains queue i, if it holds anything.
SeqVisit ==
    /\ srv.pc = "pass"
    /\ srv.i < NumMatches
    /\ LET hasWork == srv.hasWork \/ matchQueues[srv.i] # <<>>
           queue == matchQueues[srv.i]
       IN  /\ srv' = [srv EXCEPT !.hasWork = hasWork, !.i = @ + 1]
           /\ IF hasWork /\ queue # <<>>
              THEN /\ matchQueues' = [matchQueues EXCEPT ![srv.i] = <<>>]
                   /\ matches' = [matches EXCEPT ![srv.i] = drainInto(@, queue)]
                   /\ processedCount' = processedCount + Len(queue)
              ELSE UNCHANGED <<matchQueues, matches, processedCount>>
    /\ UNCHANGED <<clients, clientsFinished>>
    /\ UNCHANGED <<deque, nPushed, dlast, thr, mutexes, matchVars, poolVars>>
    /\ UNCHANGED arrival

\* GameServer::processAllSequential, line 62: the pass is over; another one
\* while the last one found work
SeqPassEnd ==
    /\ srv.pc = "pass"
    /\ srv.i = NumMatches
    /\ srv' = [srv EXCEPT !.pc = IF srv.hasWork THEN "pass" ELSE "done",
                          !.i = 0, !.hasWork = FALSE]
    /\ UNCHANGED <<pipeVars, deque, nPushed, dlast, thr, mutexes, matchVars, poolVars>>

\* GameServer::processAllSequential on a started server whose queue m holds
\* the given inputs: processPending(m) swaps the queue out and drains it in
\* one go
SequentialResult(m, inputs) == drainInto(start(Match(m)), inputs)

\* SpecServer: the inputs given to receiveInput so far, those of calls
\* under way included
Received ==
    LET RECURSIVE sum(_)
        sum(n) == IF n = 0 THEN 0 ELSE Len(arrival[n - 1]) + sum(n - 1)
    IN  sum(NumMatches)
          + Cardinality({t \in Threads : thr[t].op = "receiveInput"})

\* a thread calls GameServer::receiveInput (line 25), processPending (line
\* 38) or getPendingCount; each goes on to lock a queue's mutex
SrvCall(t) ==
    /\ thr[t].pc = "idle"
    /\ \/ /\ Received < MaxReceive
          /\ \E m \in 0..(NumMatches - 1) :
                thr' = [thr EXCEPT ![t] = [ThreadIdle EXCEPT
                           !.pc = "lock", !.op = "receiveInput", !.m = m,
                           !.input = Input(m, Received % 2, Received, ActionAt(Received)),
                           !.want = QueueMutex(m), !.next = "push"]]
       \/ \E m \in 0..(NumMatches - 1) :
             thr' = [thr EXCEPT ![t] = [ThreadIdle EXCEPT
                        !.pc = "lock", !.op = "processPending", !.m = m,
                        !.want = QueueMutex(m), !.next = "swap"]]
       \/ thr' = [thr EXCEPT ![t] = [ThreadIdle EXCEPT
                     !.pc = "lock", !.op = "getPendingCount",
                     !.want = QueueMutex(0), !.next = "count"]]
    /\ UNCHANGED <<mutexes, pipeVars, deque, nPushed, dlast, srv, matchVars, poolVars>>

\* std::lock_guard's constructor (game_server.cpp:26, 44, 111; match.cpp:43):
\* the thread gets the mutex when it is free, and waits for it until then
SrvAcquire(t) ==
    /\ thr[t].pc = "lock"
    /\ mutexes[thr[t].want] = NoThread
    /\ mutexes' = [mutexes EXCEPT ![thr[t].want] = t]
    /\ thr' = [thr EXCEPT ![t].pc = thr[t].next]
    /\ UNCHANGED <<pipeVars, deque, nPushed, dlast, srv, matchVars, poolVars>>

\* GameServer::receiveInput, lines 27-28: the push, and the lock_guard's
\* destructor at the end of the block
SrvReceivePush(t) ==
    /\ thr[t].pc = "push"
    /\ matchQueues' = receiveInput(matchQueues, thr[t].input, NumMatches)
    /\ arrival' = receiveInput(arrival, thr[t].input, NumMatches)
    /\ mutexes' = [mutexes EXCEPT ![QueueMutex(thr[t].m)] = NoThread]
    /\ thr' = [thr EXCEPT ![t] = ThreadIdle]
    /\ UNCHANGED <<matches, clients, clientsFinished, processedCount>>
    /\ UNCHANGED <<deque, nPushed, dlast, srv, matchVars, poolVars>>

\* A plausible slip: the lock_guard of processPending is not in a block of
\* its own, so the queue stays locked during the drain.
SrvSwapKeepsLock(t) ==
    /\ thr[t].pc = "swap"
    /\ IF matchQueues[thr[t].m] = <<>>
       THEN /\ thr' = [thr EXCEPT ![t] = ThreadIdle]
            /\ mutexes' = [mutexes EXCEPT ![QueueMutex(thr[t].m)] = NoThread]
            /\ UNCHANGED matchQueues
       ELSE /\ thr' = [thr EXCEPT ![t].localQueue = matchQueues[thr[t].m],
                                  ![t].pc = "lock",
                                  ![t].want = MatchMutex(thr[t].m),
                                  ![t].next = "process"]
            /\ matchQueues' = [matchQueues EXCEPT ![thr[t].m] = <<>>]
            /\ UNCHANGED mutexes
    /\ UNCHANGED <<matches, clients, clientsFinished, processedCount, arrival>>
    /\ UNCHANGED <<deque, nPushed, dlast, srv, matchVars, poolVars>>

\* A plausible slip: the batch is copied out of the queue, which keeps it.
SrvSwapCopies(t) ==
    /\ thr[t].pc = "swap"
    /\ IF matchQueues[thr[t].m] = <<>>
       THEN thr' = [thr EXCEPT ![t] = ThreadIdle]
       ELSE thr' = [thr EXCEPT ![t].localQueue = matchQueues[thr[t].m],
                               ![t].pc = "lock",
                               ![t].want = MatchMutex(thr[t].m),
                               ![t].next = "process"]
    /\ mutexes' = [mutexes EXCEPT ![QueueMutex(thr[t].m)] = NoThread]
    /\ UNCHANGED <<matchQueues, matches, clients, clientsFinished, processedCount, arrival>>
    /\ UNCHANGED <<deque, nPushed, dlast, srv, matchVars, poolVars>>

\* GameServer::processPending, lines 43-54: return on an empty queue, else
\* swap it into the local queue; the block ends and unlocks the queue; the
\* thread goes on to Match::processInput, which locks the match
SrvSwap(t) ==
    /\ thr[t].pc = "swap"
    /\ IF matchQueues[thr[t].m] = <<>>
       THEN /\ thr' = [thr EXCEPT ![t] = ThreadIdle]
            /\ UNCHANGED matchQueues
       ELSE /\ thr' = [thr EXCEPT ![t].localQueue = matchQueues[thr[t].m],
                                  ![t].pc = "lock",
                                  ![t].want = MatchMutex(thr[t].m),
                                  ![t].next = "process"]
            /\ matchQueues' = [matchQueues EXCEPT ![thr[t].m] = <<>>]
    /\ mutexes' = [mutexes EXCEPT ![QueueMutex(thr[t].m)] = NoThread]
    /\ UNCHANGED <<matches, clients, clientsFinished, processedCount, arrival>>
    /\ UNCHANGED <<deque, nPushed, dlast, srv, matchVars, poolVars>>

\* Match::processInput under the match's mutex, then GameServer::
\* processPending, lines 55-56: the pop and the count; the loop goes on to
\* the next input or the call returns
SrvProcess(t) ==
    /\ thr[t].pc = "process"
    /\ matches' = [matches EXCEPT ![thr[t].m] = processInput(@, Head(thr[t].localQueue))]
    /\ processedCount' = processedCount + 1
    /\ mutexes' = [mutexes EXCEPT ![MatchMutex(thr[t].m)] = NoThread]
    /\ thr' = [thr EXCEPT ![t] =
                  IF Tail(thr[t].localQueue) = <<>> THEN ThreadIdle
                  ELSE [thr[t] EXCEPT !.localQueue = Tail(@), !.pc = "lock",
                                      !.want = MatchMutex(thr[t].m),
                                      !.next = "process"]]
    /\ UNCHANGED <<matchQueues, clients, clientsFinished, arrival>>
    /\ UNCHANGED <<deque, nPushed, dlast, srv, matchVars, poolVars>>

\* GameServer::getPendingCount, lines 110-113: one queue's size is added
\* under its mutex, which the end of the loop body unlocks
SrvCountRead(t) ==
    /\ thr[t].pc = "count"
    /\ mutexes' = [mutexes EXCEPT ![QueueMutex(thr[t].i)] = NoThread]
    /\ thr' = [thr EXCEPT ![t] =
                  IF thr[t].i + 1 < NumMatches
                  THEN [thr[t] EXCEPT !.total = @ + Len(matchQueues[thr[t].i]),
                                      !.i = @ + 1, !.pc = "lock",
                                      !.want = QueueMutex(thr[t].i + 1),
                                      !.next = "count"]
                  ELSE ThreadIdle]
    /\ UNCHANGED <<pipeVars, deque, nPushed, dlast, srv, matchVars, poolVars>>

\* GameServer::getPendingCount, taken at once
PendingCount ==
    LET RECURSIVE sum(_)
        sum(n) == IF n = 0 THEN 0 ELSE Len(matchQueues[n - 1]) + sum(n - 1)
    IN  sum(NumMatches)

\* runConcurrentBenchmark, lines 85-146: the client tasks, then the match
\* tasks
PipelineTask(n) == IF n < NumClients THEN ClientTask(n) ELSE MatchTask(n - NumClients)

(***************************************************************************)
(* What a call did, recorded for the properties.                           *)
(***************************************************************************)
NoCall ==
    [op |-> "none", branch |-> "none", input |-> Input(0, 0, 0, "MOVE_LEFT"),
     tickBefore |-> 0, snapshot |-> FALSE, pruned |-> FALSE, historyBeforePrune |-> <<>>]

CallRecord(m, input) ==
    IF ~m.state.isRunning
    THEN [NoCall EXCEPT !.op = "processInput", !.branch = "ignored", !.input = input,
                        !.tickBefore = m.state.currentTick]
    ELSE LET m1 == afterAdvance(m, input)
             evicts == atBoundary(m1) /\ Len(m1.snapshots) + 1 > MAX_SNAPSHOTS
         IN  [op |-> "processInput",
              branch |-> IF isLate(m, input) THEN "late" ELSE "normal",
              input |-> input,
              tickBefore |-> m.state.currentTick,
              snapshot |-> atBoundary(m1),
              pruned |-> evicts,
              historyBeforePrune |-> IF evicts THEN m1.inputHistory ELSE <<>>]

(***************************************************************************)
(* Actions on one match.                                                   *)
(***************************************************************************)
InitMatch ==
    /\ match = Match(0)
    /\ last = NoCall
    /\ nCalls = 0
    /\ nLate = 0
    /\ scen = [player |-> 0, action |-> "MOVE_LEFT"]
    /\ PoolConstructed
    /\ PipelineConstructed(0, 0)
    /\ UnitsConstructed

\* Match::start, called once by GameServer::start
Start ==
    /\ ~match.state.isRunning
    /\ match' = start(match)
    /\ last' = [NoCall EXCEPT !.op = "start"]
    /\ UNCHANGED <<nCalls, nLate, scen, poolVars, pipeVars, unitVars>>

\* one call of Match::processInput
Call(input) ==
    /\ match' = processInput(match, input)
    /\ last' = CallRecord(match, input)
    /\ nCalls' = nCalls + 1

\* SpecMatch: the next input of the in-order stream (tick = inputs sent so
\* far in order; the players alternate)
ProcessInOrder ==
    /\ match.state.isRunning
    /\ nCalls < MaxCalls
    /\ Call(Input(0, (nCalls - nLate) % 2, nCalls - nLate, ActionAt(nCalls - nLate)))
    /\ UNCHANGED <<nLate, scen, poolVars, pipeVars, unitVars>>

\* SpecMatch: an input that arrives late: tick 0, the tick just played, or
\* the tick before the eldest snapshot
LateTicks ==
    {t \in {0, match.state.currentTick - 1, match.snapshots[1].tickId - 1} :
        t >= 0 /\ t < match.state.currentTick}

ProcessLate ==
    /\ match.state.isRunning
    /\ nCalls < MaxCalls
    /\ nLate < MaxLate
    /\ \E tick \in LateTicks : Call(Input(0, 1, tick, "MOVE_UP"))
    /\ nLate' = nLate + 1
    /\ UNCHANGED <<scen, poolVars, pipeVars, unitVars>>

\* SpecSmall: any input, also before start
ProcessAny ==
    /\ nCalls < MaxSmallCalls
    /\ \E player \in 0..1, tick \in 0..MaxSmallTick, action \in ActionType :
          Call(Input(0, player, tick, action))
    /\ UNCHANGED <<nLate, scen, poolVars, pipeVars, unitVars>>

\* SpecScenario: the scenario's player sends its action at ticks 0, 1, ...
InitScenario ==
    /\ match = Match(0)
    /\ last = NoCall
    /\ nCalls = 0
    /\ nLate = 0
    /\ scen \in [player : 0..1, action : ActionType]
    /\ PoolConstructed
    /\ PipelineConstructed(0, 0)
    /\ UnitsConstructed

ProcessScenario ==
    /\ match.state.isRunning
    /\ nCalls < ScenarioLen
    /\ Call(Input(0, scen.player, nCalls, scen.action))
    /\ UNCHANGED <<nLate, scen, poolVars, pipeVars, unitVars>>

NextMatch == Start \/ ProcessInOrder \/ ProcessLate
SpecMatch == InitMatch /\ [][NextMatch]_vars

NextSmall == Start \/ ProcessAny
SpecSmall == InitMatch /\ [][NextSmall]_vars

\* SpecWall: one player sends the same action tick after tick, which takes
\* it to a wall, and then one input of either player arrives late
ProcessTowardsWall ==
    /\ match.state.isRunning
    /\ nCalls < MaxWallCalls
    /\ nLate = 0
    /\ Call(Input(0, scen.player, nCalls, scen.action))
    /\ UNCHANGED <<nLate, scen, poolVars, pipeVars, unitVars>>

ProcessLateAtWall ==
    /\ match.state.isRunning
    /\ nCalls < MaxWallCalls
    /\ nLate = 0
    /\ nLate' = nLate + 1
    /\ \E tick \in LateTicks, player \in 0..1, action \in ActionType :
          Call(Input(0, player, tick, action))
    /\ UNCHANGED <<scen, poolVars, pipeVars, unitVars>>

NextWall == Start \/ ProcessTowardsWall \/ ProcessLateAtWall
SpecWall == InitScenario /\ [][NextWall]_vars

NextScenario == Start \/ ProcessScenario
SpecScenario == InitScenario /\ [][NextScenario]_vars

(***************************************************************************)
(* SpecDeque: one thread pushes up to MaxPush items on a WorkStealingQueue *)
(* and pops at both ends, in any order.                                    *)
(***************************************************************************)
InitDeque ==
    /\ UnitsConstructed
    /\ PoolConstructed
    /\ PipelineConstructed(0, 0)
    /\ match = Match(0)
    /\ last = NoCall
    /\ nCalls = 0
    /\ nLate = 0
    /\ scen = [player |-> 0, action |-> "MOVE_LEFT"]

NextDeque == DequePushBack \/ DequePopBack \/ DequePopFront

SpecDeque == InitDeque /\ [][NextDeque]_vars

(***************************************************************************)
(* SpecSequential: one thread gives a started server a batch of up to      *)
(* MaxBatch inputs and then drains it with processAllSequential. The       *)
(* thread keeps running until the drain returns.                           *)
(***************************************************************************)
InitSequential ==
    /\ UnitsConstructed
    /\ PoolConstructed
    /\ PipelineConstructed(0, NumMatches)
    /\ match = Match(0)
    /\ last = NoCall
    /\ nCalls = 0
    /\ nLate = 0
    /\ scen = [player |-> 0, action |-> "MOVE_LEFT"]

NextSequential == SeqReceive \/ SeqBegin \/ SeqVisit \/ SeqPassEnd

\* weak fairness of SeqVisit, with its enabling condition written out
\* (the step always advances srv.i)
SeqVisitEnabled == srv.pc = "pass" /\ srv.i < NumMatches
FairSeqVisit == []<>(~SeqVisitEnabled) \/ []<><<SeqVisit>>_vars

SpecSequential ==
    /\ InitSequential
    /\ [][NextSequential]_vars
    /\ WF_vars(SeqReceive \/ SeqBegin \/ SeqPassEnd)
    /\ FairSeqVisit

(***************************************************************************)
(* SpecServer: NumThreads threads call receiveInput, processPending and    *)
(* getPendingCount of one started server, any call at any moment, also two *)
(* processPending of the same match at once; MaxReceive inputs in all.     *)
(***************************************************************************)
InitServer ==
    /\ UnitsConstructed
    /\ PoolConstructed
    /\ PipelineConstructed(0, NumMatches)
    /\ match = Match(0)
    /\ last = NoCall
    /\ nCalls = 0
    /\ nLate = 0
    /\ scen = [player |-> 0, action |-> "MOVE_LEFT"]

NextServer ==
    \E t \in Threads :
        \/ SrvCall(t)
        \/ SrvAcquire(t)
        \/ SrvReceivePush(t)
        \/ SrvSwap(t)
        \/ SrvProcess(t)
        \/ SrvCountRead(t)

SpecServer == InitServer /\ [][NextServer]_vars

(***************************************************************************)
(* SpecLocks: the lock scopes of the pool and of the server, as the worker *)
(* threads and the main thread go through them. Each call is the sequence  *)
(* of lock and unlock operations its code makes, in program order; what    *)
(* the code decides from data (a deque or queue is empty, the size of a    *)
(* batch, the victim, resubmit or not) is chosen freely.                   *)
(***************************************************************************)
\* WorkStealingQueue::mutex_ of worker w's deque and ThreadPool::waitMutex_
DequeMutex(w) == <<"deque", w>>
PoolWaitMutex == <<"wait", 0>>
AllMutexes == ServerMutexes \cup {DequeMutex(w) : w \in Workers} \cup {PoolWaitMutex}

\* the threads: the workers and, after them, the main thread
MainThread == NumWorkers
LockThreads == Workers \cup {MainThread}

\* a lock_guard's scope: constructor and destructor
Scope(x) == << <<"lock", x>>, <<"unlock", x>> >>

RECURSIVE Times(_, _)
Times(ops, n) == IF n = 0 THEN <<>> ELSE ops \o Times(ops, n - 1)

\* GameServer::receiveInput
ReceiveInputLocks(m) == Scope(QueueMutex(m))

\* GameServer::processPending with a batch of n inputs: the swap block,
\* then Match::processInput for each input
ProcessPendingLocks(m, n) == Scope(QueueMutex(m)) \o Times(Scope(MatchMutex(m)), n)

\* A plausible slip: getPendingCount locks all queues to read a consistent
\* total.
GetPendingCountLocksAll ==
    LET RECURSIVE locks(_)
        locks(n) == IF n = 0 THEN <<>> ELSE locks(n - 1) \o << <<"lock", QueueMutex(n - 1)>> >>
        RECURSIVE unlocks(_)
        unlocks(n) == IF n = 0 THEN <<>> ELSE << <<"unlock", QueueMutex(n - 1)>> >> \o unlocks(n - 1)
    IN  locks(NumMatches) \o unlocks(NumMatches)

\* GameServer::getPendingCount: the loop body's lock_guard, queue by queue
GetPendingCountLocks ==
    LET RECURSIVE upTo(_)
        upTo(n) == IF n = 0 THEN <<>> ELSE upTo(n - 1) \o Scope(QueueMutex(n - 1))
    IN  upTo(NumMatches)

\* ThreadPool::submit: pushBack on the deque round-robin chose (resubmit =
\* FALSE: the task does not submit)
SubmitLocks(resubmit, q) == IF resubmit THEN Scope(DequeMutex(q)) ELSE <<>>

\* condition_variable::wait / wait_for under a unique_lock of waitMutex_:
\* the predicate holds at once, or the thread blocks, which unlocks the
\* mutex, and locks it again when it wakes
WaitLocks(blocks) ==
    IF blocks THEN Scope(PoolWaitMutex) \o Scope(PoolWaitMutex) ELSE Scope(PoolWaitMutex)

\* a thread with these operations still to make
LockThreadAt(ops, stage) ==
    [pc    |-> IF ops = <<>> THEN "idle"
               ELSE IF ops[1][1] = "lock" THEN "lock" ELSE "hold",
     want  |-> IF ops = <<>> THEN PoolWaitMutex ELSE ops[1][2],
     ops   |-> ops,
     stage |-> stage]

LocksUnchanged == UNCHANGED <<deque, nPushed, dlast, srv, matchVars, poolVars, pipeVars>>

\* ThreadPool::workerFunction, lines 131-134: tryPopBack on the own deque
LockWorkerPopLocal(t) ==
    /\ t \in Workers
    /\ thr[t].pc = "idle" /\ thr[t].stage = "loop"
    /\ thr' = [thr EXCEPT ![t] = LockThreadAt(Scope(DequeMutex(t)), "search")]
    /\ UNCHANGED mutexes
    /\ LocksUnchanged

\* ThreadPool::workerFunction, lines 137-148: tryPopFront on a victim
LockWorkerSteal(t) ==
    /\ t \in Workers
    /\ thr[t].pc = "idle" /\ thr[t].stage = "search"
    /\ \E victim \in Workers \ {t} :
          thr' = [thr EXCEPT ![t] = LockThreadAt(Scope(DequeMutex(victim)), "search")]
    /\ UNCHANGED mutexes
    /\ LocksUnchanged

\* ThreadPool::workerFunction, lines 153-158 with ClientTask::operator():
\* receiveInputs for the batch, then submit or the count of finished clients
LockWorkerRunClientTask(t) ==
    /\ t \in Workers
    /\ thr[t].pc = "idle" /\ thr[t].stage = "search"
    /\ \E m \in 0..(NumMatches - 1), resubmit \in BOOLEAN, q \in Workers :
          thr' = [thr EXCEPT ![t] =
                     LockThreadAt(Times(ReceiveInputLocks(m), BatchSize)
                                    \o SubmitLocks(resubmit, q), "loop")]
    /\ UNCHANGED mutexes
    /\ LocksUnchanged

\* ThreadPool::workerFunction, lines 153-158 with MatchTask::operator():
\* processPending, getPendingCount, then submit or not
LockWorkerRunMatchTask(t) ==
    /\ t \in Workers
    /\ thr[t].pc = "idle" /\ thr[t].stage = "search"
    /\ \E m \in 0..(NumMatches - 1), n \in 0..MaxDrain, resubmit \in BOOLEAN, q \in Workers :
          thr' = [thr EXCEPT ![t] =
                     LockThreadAt(ProcessPendingLocks(m, n) \o GetPendingCountLocks
                                    \o SubmitLocks(resubmit, q), "loop")]
    /\ UNCHANGED mutexes
    /\ LocksUnchanged

\* ThreadPool::workerFunction, lines 161-164: the park
LockWorkerPark(t) ==
    /\ t \in Workers
    /\ thr[t].pc = "idle" /\ thr[t].stage = "search"
    /\ \E blocks \in BOOLEAN :
          thr' = [thr EXCEPT ![t] = LockThreadAt(WaitLocks(blocks), "loop")]
    /\ UNCHANGED mutexes
    /\ LocksUnchanged

\* the main thread: ThreadPool::submit
LockMainSubmit ==
    /\ thr[MainThread].pc = "idle"
    /\ \E q \in Workers :
          thr' = [thr EXCEPT ![MainThread] = LockThreadAt(SubmitLocks(TRUE, q), "main")]
    /\ UNCHANGED mutexes
    /\ LocksUnchanged

\* the main thread: ThreadPool::waitAll
LockMainWaitAll ==
    /\ thr[MainThread].pc = "idle"
    /\ \E blocks \in BOOLEAN :
          thr' = [thr EXCEPT ![MainThread] = LockThreadAt(WaitLocks(blocks), "main")]
    /\ UNCHANGED mutexes
    /\ LocksUnchanged

\* std::mutex::lock: the thread gets the mutex when it is free
LockAcquire(t) ==
    /\ thr[t].pc = "lock"
    /\ mutexes[thr[t].want] = NoThread
    /\ mutexes' = [mutexes EXCEPT ![thr[t].want] = t]
    /\ thr' = [thr EXCEPT ![t] = LockThreadAt(Tail(thr[t].ops), thr[t].stage)]
    /\ LocksUnchanged

\* std::mutex::unlock
LockRelease(t) ==
    /\ thr[t].pc = "hold"
    /\ mutexes' = [mutexes EXCEPT ![thr[t].want] = NoThread]
    /\ thr' = [thr EXCEPT ![t] = LockThreadAt(Tail(thr[t].ops), thr[t].stage)]
    /\ LocksUnchanged

InitLocks ==
    /\ deque = <<>>
    /\ nPushed = 0
    /\ dlast = NoOp
    /\ srv = [pc |-> "receive", nReceived |-> 0, nInRange |-> 0, i |-> 0,
              hasWork |-> FALSE, dropped |-> FALSE, before |-> <<>>]
    /\ thr = [t \in LockThreads |->
                 LockThreadAt(<<>>, IF t = MainThread THEN "main" ELSE "loop")]
    /\ mutexes = [x \in AllMutexes |-> NoThread]
    /\ PoolConstructed
    /\ PipelineConstructed(0, NumMatches)
    /\ match = Match(0)
    /\ last = NoCall
    /\ nCalls = 0
    /\ nLate = 0
    /\ scen = [player |-> 0, action |-> "MOVE_LEFT"]

NextLocks ==
    \/ LockMainSubmit
    \/ LockMainWaitAll
    \/ \E t \in LockThreads :
          \/ LockWorkerPopLocal(t)
          \/ LockWorkerSteal(t)
          \/ LockWorkerRunClientTask(t)
          \/ LockWorkerRunMatchTask(t)
          \/ LockWorkerPark(t)
          \/ LockAcquire(t)
          \/ LockRelease(t)

SpecLocks == InitLocks /\ [][NextLocks]_vars

(***************************************************************************)
(* SpecPool: the main thread submits up to MaxSubmit tasks, calls waitAll  *)
(* and destroys the pool. FairSpecPool adds what the operating system's    *)
(* scheduler gives: every thread that can take a step eventually takes one; *)
(* a spurious wake-up is never owed.                                       *)
(***************************************************************************)
InitPool ==
    /\ PoolConstructed
    /\ PipelineConstructed(0, 0)
    /\ UnitsConstructed
    /\ match = Match(0)
    /\ last = NoCall
    /\ nCalls = 0
    /\ nLate = 0
    /\ scen = [player |-> 0, action |-> "MOVE_LEFT"]

PoolTasks == {IncrTask} \cup {ResubTask(k) : k \in 1..MaxResubmit}

WorkerPool(w) ==
    /\ \/ WorkerCycle(w)
       \/ RunIncr(w)
       \/ RunResub(w)
    /\ UNCHANGED <<matchVars, pipeVars, unitVars>>

MainPool ==
    /\ \/ MainPush
       \/ MainBarrier
    /\ UNCHANGED <<matchVars, pipeVars, unitVars>>

MainPoolSubmit ==
    /\ mloc.nSubmitted < MaxSubmit
    /\ \E task \in PoolTasks : MainSubmit(task)
    /\ UNCHANGED <<matchVars, pipeVars, unitVars>>

MainPoolSpurious == MainSpuriousWake /\ UNCHANGED <<matchVars, pipeVars, unitVars>>

NextPool ==
    \/ \E w \in Workers : WorkerPool(w)
    \/ MainPool
    \/ MainPoolSubmit
    \/ MainPoolSpurious

SpecPool == InitPool /\ [][NextPool]_vars

FairSpecPool ==
    /\ SpecPool
    /\ \A w \in Workers : WF_vars(WorkerPool(w))
    /\ WF_vars(MainPool)

\* FairSpecPool with a fair waitMutex_: a worker that finds the mutex free
\* again and again, before its wait or at its end, gets it (the caller of
\* waitAll holds it only from its test of the predicate until it blocks)
FairMutexSpecPool ==
    /\ FairSpecPool
    /\ \A w \in Workers :
          SF_vars((WorkerPark(w) \/ WorkerUnpark(w))
                    /\ UNCHANGED <<matchVars, pipeVars, unitVars>>)

(***************************************************************************)
(* SpecPoolApi: the main thread uses the whole interface of the pool in    *)
(* any order: submit, submitTo with any worker id (one past the last       *)
(* included), waitAll, and shutdown at any moment and more than once.      *)
(* A call that the pool is to ignore passes ProbeTask.                     *)
(***************************************************************************)
ProbeTask == [kind |-> "incr", id |-> 1]

MainApiSubmit ==
    /\ mloc.nSubmitted < MaxSubmit
    /\ \E task \in PoolTasks : MainSubmit(IF running THEN task ELSE ProbeTask)
    /\ UNCHANGED <<matchVars, pipeVars, unitVars>>

MainApiSubmitTo ==
    /\ mloc.nSubmitted < MaxSubmit
    /\ \E k \in 0..NumWorkers :
          MainSubmitTo(k, IF running /\ k < NumWorkers THEN IncrTask ELSE ProbeTask)
    /\ UNCHANGED <<matchVars, pipeVars, unitVars>>

MainApiShutdown ==
    /\ mloc.nShutdown < MaxShutdown
    /\ MainShutdownCall
    /\ UNCHANGED <<matchVars, pipeVars, unitVars>>

MainApi ==
    /\ \/ MainPushTo
       \/ MainShutdownReturn
    /\ UNCHANGED <<matchVars, pipeVars, unitVars>>

NextPoolApi ==
    \/ \E w \in Workers : WorkerPool(w)
    \/ MainPool
    \/ MainPoolSpurious
    \/ MainApiSubmit
    \/ MainApiSubmitTo
    \/ MainApiShutdown
    \/ MainApi

SpecPoolApi == InitPool /\ [][NextPoolApi]_vars

(***************************************************************************)
(* SpecIdle: a pool to which nothing is ever submitted. The workers poll   *)
(* their deques and their victims and park; the main thread calls shutdown *)
(* at any moment, and once more after it has returned.                     *)
(***************************************************************************)
WorkerIdle(w) ==
    /\ \/ WorkerLoop(w)
       \/ WorkerPopLocal(w)
       \/ WorkerSteal(w)
       \/ WorkerPark(w)
       \/ WorkerUnpark(w)
    /\ UNCHANGED <<matchVars, pipeVars, unitVars>>

MainIdle ==
    /\ \/ MainJoin
       \/ MainShutdownReturn
    /\ UNCHANGED <<matchVars, pipeVars, unitVars>>

NextIdle ==
    \/ \E w \in Workers : WorkerIdle(w)
    \/ MainApiShutdown
    \/ MainIdle

SpecIdle ==
    /\ InitPool
    /\ [][NextIdle]_vars
    /\ \A w \in Workers : WF_vars(WorkerIdle(w))
    /\ WF_vars(MainIdle)

(***************************************************************************)
(* SpecPipeline: runConcurrentBenchmark. The main thread submits one       *)
(* client task per client and one match task per match, then calls waitAll *)
(* and destroys the pool.                                                  *)
(***************************************************************************)
InitPipeline ==
    /\ PoolConstructed
    /\ PipelineConstructed(NumClients, NumMatches)
    /\ UnitsConstructed
    /\ match = Match(0)
    /\ last = NoCall
    /\ nCalls = 0
    /\ nLate = 0
    /\ scen = [player |-> 0, action |-> "MOVE_LEFT"]

WorkerPipe(w) ==
    /\ \/ WorkerCycle(w) /\ UNCHANGED pipeVars
       \/ RunClient(w)
       \/ ClientReceive(w)
       \/ ClientFinish(w)
       \/ RunMatch(w)
       \/ MatchDrain(w)
       \/ MatchCheck(w)
       \/ MatchScan(w)
    /\ UNCHANGED <<matchVars, unitVars>>

MainPipeSubmit ==
    /\ mloc.nSubmitted < NumClients + NumMatches
    /\ MainSubmit(PipelineTask(mloc.nSubmitted))
    /\ UNCHANGED <<matchVars, pipeVars, unitVars>>

MainPipe ==
    /\ mpc = "ready" => mloc.nSubmitted = NumClients + NumMatches
    /\ \/ MainPush
       \/ MainBarrier
    /\ UNCHANGED <<matchVars, pipeVars, unitVars>>

MainPipeSpurious == MainSpuriousWake /\ UNCHANGED <<matchVars, pipeVars, unitVars>>

NextPipeline ==
    \/ \E w \in Workers : WorkerPipe(w)
    \/ MainPipeSubmit
    \/ MainPipe
    \/ MainPipeSpurious

SpecPipeline == InitPipeline /\ [][NextPipeline]_vars

(***************************************************************************)
(* Properties of the pool.                                                 *)
(***************************************************************************)
InWaitAll == mpc \in {"prewait", "blocked", "woken"}
WaitAllReturned == mpc \in {"returned", "join", "joined"}

\* C1: for every interleaving of a caller of wait_all with the workers, once
\* the last outstanding task has completed and pending_tasks is 0, the
\* caller of wait_all eventually returns.
C1_WaitAllReturns == (InWaitAll /\ pendingTasks = 0) ~> WaitAllReturned

\* C2: when all external submits precede wait_all, then once wait_all has
\* returned every accepted submit, external or made by a running task, has a
\* finished task: nothing is queued, nothing is running, and the counter
\* holds one increment per task.
C2_WaitAllAfterCompletion ==
    WaitAllReturned =>
        /\ unfinished = 0
        /\ counter = mloc.expected
        /\ pendingTasks = 0
        /\ \A w \in Workers : localQueues[w] = <<>> /\ wloc[w].task = NoTask

\* C2 witness: wait_all has returned after MaxSubmit external submits, one
\* of them a task that resubmitted itself, with a task stolen on the way.
C2_Witness ==
    /\ mpc = "returned"
    /\ mloc.nSubmitted = MaxSubmit
    /\ mloc.expected > MaxSubmit
    /\ counter = mloc.expected
    /\ stealCount > 0

\* a task is in a deque, in a submit under way or in a worker's hands
Held(task) ==
    \/ \E w \in Workers : \E i \in 1..Len(localQueues[w]) : localQueues[w][i] = task
    \/ \E w \in Workers : wloc[w].task = task \/ wloc[w].sub = task
    \/ mloc.sub = task

\* the step is a call of submit or submitTo by the main thread
SubmitCalled == mloc'.nSubmitted = mloc.nSubmitted + 1

\* the call is one the pool is to ignore: it starts after shutdown set
\* running to false, or it is a submitTo with worker_id >= N
ToBeIgnored ==
    \/ ~running
    \/ mloc'.call.op = "submitTo" /\ mloc'.call.worker >= NumWorkers

\* C14: a submit that starts after shutdown set running to false, and a
\* submit_to with worker_id >= N, have no effect: pending_tasks is unchanged,
\* no deque gains an item, and the task is never executed.
C14_IgnoredSubmits ==
    /\ [][SubmitCalled /\ ToBeIgnored =>
             /\ pendingTasks' = pendingTasks
             /\ localQueues' = localQueues
             /\ mpc' = "ready"
             /\ mloc'.sub = NoTask]_vars
    /\ [][\A w \in Workers :
             wpc[w] = "submit" /\ wpc'[w] # "submit" /\ ~running =>
                 /\ pendingTasks' = pendingTasks
                 /\ localQueues' = localQueues
                 /\ wpc'[w] = "dec"]_vars
    /\ [](~Held(ProbeTask))

\* C14 witness: after a shutdown, the last submit_to of the main thread
\* named the worker one past the last, and an earlier submit was accepted.
C14_Witness ==
    /\ ~running
    /\ mpc = "ready"
    /\ mloc.call = ApiCall("submitTo", NumWorkers)
    /\ mloc.nSubmitted = MaxSubmit
    /\ mloc.expected > 0

\* the pool's state: the flag, the counters, the deques, the workers
PoolState == <<running, pendingTasks, nextQueue, stealCount, localQueues, wpc, wloc>>

\* C15: a shutdown call made after a first shutdown has returned (the
\* destructor's included) returns at once, joins nothing and leaves the
\* running flag, the counters and the deques unchanged.
C15_ShutdownIdempotent ==
    /\ [][mloc'.nShutdown = mloc.nShutdown + 1 /\ ~running =>
             mpc' = "ready" /\ PoolState' = PoolState]_vars
    /\ [][mpc = "returned" /\ mpc' # "returned" /\ ~running =>
             mpc' = "joined" /\ PoolState' = PoolState]_vars

\* C15 witness: the second shutdown call has returned; the first one was
\* made while a task was pending, which is still in its deque.
C15_Witness ==
    /\ mloc.nShutdown = MaxShutdown
    /\ mpc = "ready"
    /\ ~running
    /\ pendingTasks > 0
    /\ \A w \in Workers : wpc[w] = "done"

\* accepted submits whose task sits in a deque
Queued ==
    LET RECURSIVE sum(_)
        sum(n) == IF n = 0 THEN 0 ELSE Len(localQueues[n - 1]) + sum(n - 1)
    IN  sum(NumWorkers)

\* accepted submits whose push on a deque is still to come
BeingPushed ==
    Cardinality({w \in Workers : wpc[w] = "push"})
      + (IF mpc \in {"push", "pushTo"} THEN 1 ELSE 0)

\* workers inside a task body
Executing ==
    Cardinality({w \in Workers : wpc[w] \notin {"loop", "pop", "steal", "park", "parked", "dec", "done"}})

\* workers between the return of a task body and the decrement
Decrementing == Cardinality({w \in Workers : wpc[w] = "dec"})

\* C16: under any interleaving of the owner's try_pop_back and the thieves'
\* try_pop_front, also on the same deque, every enqueued task is handed to at
\* most one worker and runs at most once, and pending_tasks is decremented
\* exactly once per executed task: every accepted submit whose body has not
\* returned is in exactly one place, and pending_tasks counts these and the
\* decrements still to come.
C16_OncePerDequeue ==
    /\ unfinished = Queued + BeingPushed + Executing
    /\ pendingTasks = unfinished + Decrementing
    /\ counter <= mloc.expected

\* C16 witness: every worker is inside a task body at once, one of the
\* tasks having been stolen.
C16_Witness ==
    /\ \A w \in Workers : wpc[w] = "run"
    /\ stealCount > 0
    /\ unfinished >= NumWorkers

\* worker w obtains a task by tryPopFront from the deque of victim v
Steals(w, v) ==
    /\ v # w
    /\ wpc[w] = "steal" /\ wpc'[w] = "run"
    /\ localQueues[v] # <<>>
    /\ localQueues'[v] = Tail(localQueues[v])
    /\ wloc'[w].task = Head(localQueues[v])

\* C22: steal_count never decreases; it goes up, by exactly one, only in a
\* step in which a worker w obtains a task by try_pop_front from the deque
\* of a victim v # w, and every such step counts (up to the bound of the
\* model's counter); so it stays 0 for a pool with a single worker and for
\* a pool to which nothing was submitted.
C22_StealCount ==
    /\ [][/\ stealCount' >= stealCount
          /\ stealCount' # stealCount =>
                /\ stealCount' = stealCount + 1
                /\ \E w, v \in Workers : Steals(w, v)
          /\ (\E w, v \in Workers : Steals(w, v)) =>
                stealCount' = Min(stealCount + 1, MaxSteals)]_vars
    /\ [](mloc.nSubmitted = 0 => stealCount = 0)
    /\ [](Cardinality(Workers) = 1 => stealCount = 0)

\* C22 witness: a worker whose own deque is empty has just taken a task
\* from the other worker's deque, and the count went up.
C22_Witness ==
    \E w \in Workers :
        /\ wpc[w] = "run"
        /\ localQueues[w] = <<>>
        /\ stealCount = 1
        /\ mloc.nSubmitted = 1

\* C3: with one producer task per client and one consumer task per match
\* submitted before wait_all, whenever wait_all has returned every input of
\* every client has been processed, every client is counted as finished and
\* no input is pending in any queue.
C3_PipelinePostcondition ==
    WaitAllReturned =>
        /\ processedCount = NumClients * InputsPerClient
        /\ clientsFinished = NumClients
        /\ PendingCount = 0

\* C3 witness: wait_all has returned from the pipeline with every input
\* processed, after a task was stolen.
C3_Witness ==
    /\ mpc = "returned"
    /\ mloc.nSubmitted = NumClients + NumMatches
    /\ processedCount = NumClients * InputsPerClient
    /\ stealCount > 0

(***************************************************************************)
(* Properties of the match.                                                *)
(***************************************************************************)
Player0 == match.state.players[1]
Player1 == match.state.players[2]

\* C4: current_tick of a match never decreases across process_input calls:
\* after every call it is at least what it was before the call.
C4_TickMonotone ==
    [][match'.state.currentTick >= match.state.currentTick]_vars

\* C5: after start() and any sequence of process_input calls, late inputs
\* and rollbacks included, the snapshots are sorted by tick_id ascending and
\* there are at most 10 of them.
C5_SnapshotsSortedAndCapped ==
    /\ Len(match.snapshots) <= 10
    /\ \A i \in 1..Len(match.snapshots), j \in 1..Len(match.snapshots) :
          i < j => match.snapshots[i].tickId <= match.snapshots[j].tickId

\* C5 witness: a call has just evicted the eldest snapshot in a run that
\* had a late input, and ten snapshots are held.
C5_Witness ==
    /\ last.pruned
    /\ nLate > 0
    /\ Len(match.snapshots) = 10

\* C6: after a pruning (the call evicted the eldest snapshot), no retained
\* input is older than the eldest retained snapshot, and the retained inputs
\* are the inputs held before the pruning that are not older, in their
\* arrival order.
C6_PrunedHistory ==
    last.pruned =>
        /\ \A i \in 1..Len(match.inputHistory) :
              match.inputHistory[i].tickId >= match.snapshots[1].tickId
        /\ match.inputHistory =
              SelectSeq(last.historyBeforePrune,
                        LAMBDA input : input.tickId >= match.snapshots[1].tickId)

\* C6 witness: a pruning that removed inputs and kept others, a late input
\* among the inputs before it.
C6_Witness ==
    /\ last.pruned
    /\ nLate > 0
    /\ Len(match.inputHistory) > 0
    /\ Len(match.inputHistory) < Len(last.historyBeforePrune)

\* the scenario of C7 and C10: a started match, 100 LEFT inputs of player 0
\* at ticks 0..99 in order
Left100 ==
    /\ match.state.isRunning
    /\ scen = [player |-> 0, action |-> "MOVE_LEFT"]
    /\ nCalls = 100

\* C7: after 100 LEFT inputs of player 0 at ticks 0..99, rollback_count is
\* 20: one demonstrative rollback per 5 processed ticks.
C7_RollbackCountIs20 ==
    Left100 => match.rollbackCount = 20

\* C8: after 600 inputs with ticks 0..599 in order, the match holds exactly
\* 10 snapshots and the eldest has tick_id 550.
C8_SnapshotCap ==
    (match.state.isRunning /\ nCalls = 600) =>
        /\ Len(match.snapshots) = 10
        /\ match.snapshots[1].tickId = 550

\* the scenario of C9: a started match has processed exactly (tick 0, DOWN),
\* (tick 1, DOWN), (tick 0, RIGHT) of player 0, in that order
LateScenario ==
    /\ nCalls = 3
    /\ match.inputHistory = <<Input(0, 0, 0, "MOVE_DOWN"),
                              Input(0, 0, 1, "MOVE_DOWN"),
                              Input(0, 0, 0, "MOVE_RIGHT")>>

\* C9: in the late-input scenario the third input takes the late-input
\* branch, rollback_count is at least 1, player 0 ends at (6,12), the start
\* position with RIGHT, DOWN, DOWN applied, and player 1 is unchanged.
C9_LateInputScenario ==
    LateScenario =>
        /\ last.branch = "late"
        /\ match.rollbackCount >= 1
        /\ Player0.x = 6 /\ Player0.y = 12
        /\ Player1.x = 15 /\ Player1.y = 10

\* C9 witness: the three inputs have been processed, the third one late.
C9_Witness ==
    /\ LateScenario
    /\ last.input = Input(0, 0, 0, "MOVE_RIGHT")
    /\ last.tickBefore = 1

\* C10: after 100 LEFT inputs of player 0 at ticks 0..99, rollbacks and
\* replays included, player 0 is at (0,10) and player 1 still at (15,10).
C10_ClampedAtLeftWall ==
    Left100 =>
        /\ Player0.x = 0 /\ Player0.y = 10
        /\ Player1.x = 15 /\ Player1.y = 10

\* C10 witness: the 100 inputs have been processed, with rollbacks.
C10_Witness ==
    /\ Left100
    /\ match.rollbackCount > 0
    /\ last.input = Input(0, 0, 99, "MOVE_LEFT")

\* C11: in every reachable state of a match, whatever the actions, the
\* rollbacks and the replays, both players satisfy 0 <= x < 20 and
\* 0 <= y < 20.
C11_PlayersInArena ==
    \A i \in 1..2 :
        /\ 0 <= match.state.players[i].x /\ match.state.players[i].x < ARENA_WIDTH
        /\ 0 <= match.state.players[i].y /\ match.state.players[i].y < ARENA_HEIGHT

\* C11 witness: player 1 was sent down against the bottom wall, through
\* rollbacks and replays, and stands on the last row.
C11_Witness ==
    /\ scen = [player |-> 1, action |-> "MOVE_DOWN"]
    /\ nCalls >= ARENA_HEIGHT * 2
    /\ match.rollbackCount > 0
    /\ Player1.y = ARENA_HEIGHT - 1

(***************************************************************************)
(* Properties of the deque.                                                *)
(***************************************************************************)
\* the reference: the set of items held; the most recently pushed is the
\* greatest, the oldest the least
Items(q) == {q[i] : i \in 1..Len(q)}
Newest(S) == CHOOSE x \in S : \A y \in S : y <= x
Oldest(S) == CHOOSE x \in S : \A y \in S : x <= y

\* C12: in any single-threaded sequence of operations, try_pop_back returns
\* the most recently pushed remaining item, try_pop_front the oldest
\* remaining item, each removing just that item, and either pop on an empty
\* deque returns absent and leaves the deque empty.
C12_DequeReference ==
    /\ dlast.op = "pushBack" =>
          /\ Items(deque) = Items(dlast.before) \cup {dlast.item}
          /\ Len(deque) = Len(dlast.before) + 1
    /\ dlast.op \in {"tryPopBack", "tryPopFront"} =>
          IF dlast.before = <<>>
          THEN ~dlast.found /\ deque = dlast.before
          ELSE /\ dlast.found
               /\ dlast.item = IF dlast.op = "tryPopBack"
                               THEN Newest(Items(dlast.before))
                               ELSE Oldest(Items(dlast.before))
               /\ Items(deque) = Items(dlast.before) \ {dlast.item}
               /\ Len(deque) = Len(dlast.before) - 1

\* C12 witness: after push 1, push 2, pop back, push 3 the deque holds items
\* 1 and 3, and try_pop_front has just returned item 1.
C12_Witness ==
    /\ dlast.op = "tryPopFront"
    /\ dlast.before = <<1, 3>>
    /\ dlast.found
    /\ dlast.item = 1
    /\ deque = <<3>>

(***************************************************************************)
(* Properties of the sequential server.                                    *)
(***************************************************************************)
RECURSIVE QueuedInputs(_)
QueuedInputs(n) == IF n = 0 THEN 0 ELSE Len(matchQueues[n - 1]) + QueuedInputs(n - 1)

\* C13: receive_many of any batch followed by the sequential drain on a
\* started server: the drain terminates, with every queue empty and
\* processed_count equal to the number of inputs whose match_id was in
\* [0, M); an input with an out-of-range match_id is dropped by receive
\* without changing any queue, match or counter.
C13_SequentialDrain ==
    /\ [](srv.pc = "done" =>
             /\ \A m \in 0..(NumMatches - 1) : matchQueues[m] = <<>>
             /\ processedCount = srv.nInRange)
    /\ [](srv.pc = "receive" /\ srv.dropped =>
             srv.before = <<matchQueues, matches, processedCount>>)
    /\ [](srv.pc = "receive" => QueuedInputs(NumMatches) = srv.nInRange)
    /\ <>(srv.pc = "done")

\* C13 witness: the drain has returned after a batch of MaxBatch inputs, one
\* of them out of range on each side and one for the last match.
C13_Witness ==
    /\ srv.pc = "done"
    /\ srv.nReceived = MaxBatch
    /\ srv.nInRange = MaxBatch - 2
    /\ processedCount = MaxBatch - 2
    /\ Len(matches[NumMatches - 1].inputHistory) = 1


(***************************************************************************)
(* Properties of the pipeline's consumers.                                 *)
(***************************************************************************)
\* the inputs a processPending(m) in flight has swapped out and not yet
\* handed to processInput
InFlight(m) ==
    LET RECURSIVE cat(_)
        cat(n) == IF n = 0 THEN <<>>
                  ELSE cat(n - 1) \o (IF wloc[n - 1].task = MatchTask(m)
                                      THEN wloc[n - 1].localQueue ELSE <<>>)
    IN  cat(NumWorkers)

\* the inputs of match m the server holds: those processInput was called
\* with, those in flight, those still queued
Arrived(m) == matches[m].inputHistory \o InFlight(m) \o matchQueues[m]

\* workers inside processPending(m), between the swap and the last pop
Draining(m) ==
    {w \in Workers : wpc[w] = "drain" /\ wloc[w].task = MatchTask(m)}

\* C17: within one match inputs are applied in arrival order: with at most
\* one process_pending(m) in flight, the inputs process_input was called
\* with, then those swapped out and waiting in the drain, then those still
\* queued, are at every moment the sequence receive appended to queue m, in
\* that order, however the producers' receive calls interleave with the swap
\* and the drain.
C17_ArrivalOrder ==
    \A m \in 0..(NumMatches - 1) :
        Cardinality(Draining(m)) <= 1 => Arrived(m) = arrival[m]

\* C17 witness: both producers of match 0 have had inputs processed, while
\* a drain of two inputs is half done and a receive has arrived behind it.
C17_Witness ==
    /\ Cardinality(Draining(0)) = 1
    /\ Len(matches[0].inputHistory) >= 2
    /\ \E j, k \in 1..Len(matches[0].inputHistory) :
          matches[0].inputHistory[j].playerId # matches[0].inputHistory[k].playerId
    /\ InFlight(0) # <<>>
    /\ matchQueues[0] # <<>>

\* the inputs of match m that have left the drain, in arrival order
Processed(m) ==
    SubSeq(arrival[m], 1, Len(arrival[m]) - Len(InFlight(m)) - Len(matchQueues[m]))

\* a processPending(m) has just drained its batch
BatchDone(m) ==
    \E w \in Workers : wpc[w] = "check" /\ wloc[w].task = MatchTask(m)

\* C18: sharding determinism: for the arrival order of the inputs of each
\* match, the MatchState the parallel self-resubmitting consumer tasks
\* produce (tick, both players' positions) is the one the sequential loop
\* produces from the same arrival order, for every split of the queue into
\* drain batches and every interleaving with the other matches: after each
\* batch for the inputs drained so far, and for the whole arrival order once
\* wait_all has returned.
C18_ShardingDeterminism ==
    \A m \in 0..(NumMatches - 1) :
        /\ BatchDone(m) =>
              matches[m].state = SequentialResult(m, Processed(m)).state
        /\ WaitAllReturned =>
              matches[m].state = SequentialResult(m, arrival[m]).state

\* C18 witness: the pipeline is over; match 0 got the inputs of both its
\* players, one of them late, so that a rollback replayed part of them,
\* while the consumer of match 1 ran alongside.
C18_Witness ==
    /\ WaitAllReturned
    /\ Len(arrival[0]) = NumClients * InputsPerClient
    /\ \E k \in 2..Len(arrival[0]) : arrival[0][k].tickId < arrival[0][k - 1].tickId
    /\ matches[0].rollbackCount > 0
    /\ matches[0].state = SequentialResult(0, arrival[0]).state

(***************************************************************************)
(* Properties of the pipeline's task accounting.                           *)
(***************************************************************************)
\* C19: quiescence is not signalled in the middle of the pipeline: in every
\* reachable state pending_tasks is at least the tasks sitting in deques
\* plus the task bodies being executed (plus the submits counted and not yet
\* pushed), so pending_tasks = 0 implies that no task is queued or running;
\* a task that resubmits itself has incremented pending_tasks before its own
\* completion decrement, so that both are counted while it finishes; and
\* pending_tasks never goes below zero.
C19_NoFalseQuiescence ==
    /\ pendingTasks >= Queued + BeingPushed + Executing
    /\ pendingTasks = 0 => (Queued = 0 /\ Executing = 0)
    /\ \A w \in Workers : wpc[w] = "push" => pendingTasks >= 2
    /\ pendingTasks >= 0

\* C19 witness: in the middle of the pipeline a client task has resubmitted
\* itself and is about to push its next copy, while the other worker is
\* about to decrement for a client task that has finished.
C19_Witness ==
    /\ InWaitAll
    /\ \E w, v \in Workers :
          /\ wpc[w] = "push" /\ wloc[w].task.kind = "client"
          /\ wpc[v] = "dec" /\ wloc[v].task.kind = "client"
    /\ clientsFinished > 0

\* how many times a task sits in a deque
CountIn(q, task) == Len(SelectSeq(q, LAMBDA t : t = task))

\* the copies of a task that are queued (in a deque, or counted and about
\* to be pushed by the main thread) or being executed
Copies(task) ==
    LET RECURSIVE queued(_)
        queued(n) == IF n = 0 THEN 0
                     ELSE CountIn(localQueues[n - 1], task) + queued(n - 1)
    IN  queued(NumWorkers)
          + (IF mloc.sub = task THEN 1 ELSE 0)
          + Cardinality({w \in Workers :
                /\ wloc[w].task = task
                /\ wpc[w] \notin {"loop", "pop", "steal", "park", "parked", "dec", "done"}})

\* workers inside processPending(m)
InProcessPending(m) ==
    {w \in Workers : wloc[w].task = MatchTask(m) /\ wpc[w] \in {"run", "drain"}}

\* C20: in the pipeline, for every match m at most one consumer task
\* MatchTask(m) is queued or executing at any time (the next copy is
\* submitted only as the last action of the current one, which still counts
\* as the one executing until its push is done), so process_pending(m) is
\* never executed by two workers at once.
C20_OneConsumerPerMatch ==
    \A m \in 0..(NumMatches - 1) :
        /\ Copies(MatchTask(m)) <= 1
        /\ Cardinality(InProcessPending(m)) <= 1

\* C20 witness: the next copy of the consumer of match 0 is already inside
\* processPending on one worker while the worker that ran the previous copy
\* and resubmitted it has not yet decremented for it.
C20_Witness ==
    \E w, v \in Workers :
        /\ w # v
        /\ wpc[w] = "dec" /\ wloc[w].task = MatchTask(0)
        /\ wpc[v] = "drain" /\ wloc[v].task = MatchTask(0)


(***************************************************************************)
(* Properties of the server's mutexes.                                     *)
(***************************************************************************)
\* the mutexes a thread holds, and the one it waits for
HeldBy(t) == {x \in ServerMutexes : mutexes[x] = t}
WaitsFor(t) == IF thr[t].pc = "lock" THEN {thr[t].want} ELSE {}
MatchMutexes == {MatchMutex(m) : m \in 0..(NumMatches - 1)}

\* a thread is draining match m: it has swapped the queue out and has not
\* yet processed all of its local queue
DrainsMatch(t, m) ==
    thr[t].op = "processPending" /\ thr[t].m = m /\ thr[t].localQueue # <<>>

\* C21: process_pending(m) holds the mutex of queue m only for the swap and
\* never while calling process_input: in every reachable state a thread that
\* holds a queue mutex neither holds nor waits for a match mutex, and is in
\* the push, the swap or the size read that ends with the unlock; a thread
\* that drains match m does not hold the mutex of queue m, so a producer's
\* receive on match m can complete during the drain.
C21_QueueLockOnlyForSwap ==
    \A t \in Threads :
        /\ \A m \in 0..(NumMatches - 1) :
              /\ mutexes[QueueMutex(m)] = t =>
                    /\ thr[t].pc \in {"push", "swap", "count"}
                    /\ (HeldBy(t) \cup WaitsFor(t)) \cap MatchMutexes = {}
              /\ DrainsMatch(t, m) => mutexes[QueueMutex(m)] # t

\* C21 witness: while one thread is inside process_input of match 0 with
\* more of its batch to drain, a producer holds the mutex of queue 0 and is
\* about to push.
C21_Witness ==
    \E t, u \in Threads :
        /\ DrainsMatch(t, 0) /\ thr[t].pc = "process"
        /\ Len(thr[t].localQueue) >= 2
        /\ thr[u].op = "receiveInput" /\ thr[u].m = 0 /\ thr[u].pc = "push"
        /\ mutexes[QueueMutex(0)] = u


(***************************************************************************)
(* Properties of the rollbacks of a match.                                 *)
(***************************************************************************)
\* the newest snapshot with tickId <= tick, the eldest one if none
\* qualifies: its place in snaps
NewestAtOrBefore(snaps, tick) ==
    LET ok == {i \in 1..Len(snaps) : snaps[i].tickId <= tick}
    IN  IF ok = {} THEN 1 ELSE CHOOSE i \in ok : \A j \in ok : j <= i

\* entries[a..b] applied one after the other, front first (the first half
\* is computed before the second is begun)
RECURSIVE Replayed(_, _, _, _)
Replayed(st, entries, a, b) ==
    IF a > b THEN st
    ELSE IF a = b THEN applyInput(st, entries[a])
         ELSE LET mid == (a + b) \div 2
                  half == Replayed(st, entries, a, mid)
              IN  IF half = st
                  THEN Replayed(st, entries, mid + 1, b)
                  ELSE Replayed(half, entries, mid + 1, b)

\* what the late-input branch is to leave: the input stored, one rollback
\* more, the state of snapshot s with the history entries of tick >=
\* s.tickId applied to it in history order
LateBranchResult(m, input) ==
    LET hist == Append(m.inputHistory, input)
        s == m.snapshots[NewestAtOrBefore(m.snapshots, input.tickId)]
        entries == SelectSeq(hist, LAMBDA e : e.tickId >= s.tickId)
    IN  [m EXCEPT !.inputHistory = hist,
                  !.rollbackCount = m.rollbackCount + 1,
                  !.state = Replayed(s.state, entries, 1, Len(entries))]

\* the entries with a tick in lo..hi sorted by tick, entries of one tick in
\* their order
RECURSIVE InTickOrder(_, _, _)
InTickOrder(entries, lo, hi) ==
    IF lo > hi THEN <<>>
    ELSE IF lo = hi THEN SelectSeq(entries, LAMBDA e : e.tickId = lo)
         ELSE InTickOrder(entries, lo, (lo + hi) \div 2)
                \o InTickOrder(entries, (lo + hi) \div 2 + 1, hi)

\* the step is a call of process_input that takes the late-input branch
LateCall == nCalls' = nCalls + 1 /\ last'.branch = "late"

\* the late call that led to this state re-applied entries whose order in
\* the history is not their order by tick, and by tick they would have left
\* another state
OrderMattered ==
    /\ last.branch = "late"
    /\ ~last.snapshot
    /\ LET s == match.snapshots[NewestAtOrBefore(match.snapshots, last.input.tickId)]
           entries == SelectSeq(match.inputHistory, LAMBDA e : e.tickId >= s.tickId)
           sorted == InTickOrder(entries, 0, MaxWallCalls)
       IN  /\ sorted # entries
           /\ advanceTick(Replayed(s.state, sorted, 1, Len(sorted))) # match.state

\* C23: a call of process_input with tick_id < current_tick on a running
\* match stores the input, adds exactly one to rollback_count, restores the
\* newest snapshot s with s.tick_id <= input.tick_id (the eldest one if none
\* qualifies) and re-applies every history entry with tick_id >= s.tick_id
\* in history order; the late input is among them when a snapshot qualifies.
\* Where the call saves no snapshot, it returns that result one tick on.
C23_LateBranch ==
    [][LateCall =>
          LET input == last'.input
              result == LateBranchResult(match, input)
          IN  /\ afterBranch(match, input) = result
              /\ ~last'.snapshot =>
                    match' = [result EXCEPT !.state = advanceTick(result.state)]
              /\ (\E i \in 1..Len(match.snapshots) :
                     match.snapshots[i].tickId <= input.tickId) =>
                    input.tickId >=
                        match.snapshots[NewestAtOrBefore(match.snapshots,
                                                         input.tickId)].tickId]_vars

\* C23 as stated: the late input itself is always among the re-applied
\* entries.
C23_LateInputReapplied ==
    [][LateCall =>
          last'.input.tickId >=
              match.snapshots[NewestAtOrBefore(match.snapshots,
                                               last'.input.tickId)].tickId]_vars

\* C23 witness: a late input has just been processed behind a run against a
\* wall, so that re-applying the entries by tick instead of in history order
\* would have left another state.
C23_Witness == OrderMattered

\* the step is a call of process_input that reaches a snapshot boundary and
\* makes the demonstrative rollback
DemoCall ==
    /\ nCalls' = nCalls + 1
    /\ match.state.isRunning
    /\ atBoundary(afterAdvance(match, last'.input))

\* what the demonstrative rollback is said to leave at a boundary reached at
\* tick T: the state of the newest snapshot s with s.tickId <= max(0, T - 2)
\* with the history entries of tick s.tickId..T applied in history order
DemoRollbackResult(m, input) ==
    LET m1 == afterSave(afterAdvance(m, input))
        T == m1.state.currentTick
        s == m1.snapshots[NewestAtOrBefore(m1.snapshots, Max(0, T - 2))]
        entries == SelectSeq(m1.inputHistory,
                             LAMBDA e : e.tickId >= s.tickId /\ e.tickId <= T)
    IN  Replayed(s.state, entries, 1, Len(entries))

\* C24: after a call of process_input that reaches a snapshot boundary at
\* tick T the players are where the snapshot s chosen for max(0, T - 2) had
\* them, moved by every history entry with tick_id in s.tick_id..T, in
\* history order.
C24_DemoRollbackReplaysWindow ==
    [][DemoCall =>
          match'.state.players = DemoRollbackResult(match, last'.input).players]_vars

\* the snapshot the demonstrative rollback of this call restores
DemoSnapshot(m, input) ==
    LET m1 == afterSave(afterAdvance(m, input))
    IN  m1.snapshots[NewestAtOrBefore(m1.snapshots,
                                      Max(0, m1.state.currentTick - 2))]

TicksOf(seq) == {seq[i].tickId : i \in 1..Len(seq)}

\* the threads inside process_pending(m) that hold a part of a batch
Drainers(m) == {t \in Threads : DrainsMatch(t, m)}

RECURSIVE HeldInBatches(_, _)
HeldInBatches(ts, m) ==
    IF ts = {} THEN 0
    ELSE LET t == CHOOSE x \in ts : TRUE
         IN  Len(thr[t].localQueue) + HeldInBatches(ts \ {t}, m)

RECURSIVE HistoryTotal(_)
HistoryTotal(n) ==
    IF n = 0 THEN 0 ELSE Len(matches[n - 1].inputHistory) + HistoryTotal(n - 1)

\* every input that arrived for match m is in exactly one place: still in
\* queue m, in the batch of exactly one call, or processed, once
EachInputOnce(m) ==
    /\ Len(matchQueues[m]) + HeldInBatches(Drainers(m), m)
          + Len(matches[m].inputHistory) = Len(arrival[m])
    /\ TicksOf(matchQueues[m])
          \cup UNION {TicksOf(thr[t].localQueue) : t \in Drainers(m)}
          \cup TicksOf(matches[m].inputHistory) = TicksOf(arrival[m])
    /\ Cardinality(TicksOf(arrival[m])) = Len(arrival[m])
    /\ \A t, u \in Drainers(m) :
          t # u => TicksOf(thr[t].localQueue) \cap TicksOf(thr[u].localQueue) = {}

\* the step is the swap block of a process_pending that finds its queue
\* empty
EmptySwap(t) ==
    /\ thr[t].pc = "swap" /\ thr'[t].pc # "swap"
    /\ matchQueues[thr[t].m] = <<>>

\* C26: with process_pending(m) called by several threads at once, every
\* input received for match m is swapped out by exactly one call, passed to
\* process_input once and counted once in processed_count: never lost and
\* never in two places; a call that finds the queue empty returns without
\* touching the match, the count or a queue.
C26_ConcurrentDrains ==
    /\ [](\A m \in 0..(NumMatches - 1) : EachInputOnce(m))
    /\ [](processedCount = HistoryTotal(NumMatches))
    /\ [][\A t \in Threads :
            EmptySwap(t) =>
                /\ thr'[t] = ThreadIdle
                /\ UNCHANGED <<matches, processedCount, matchQueues>>]_vars

\* C26 witness: two threads are inside process_pending(0) at once, each with
\* a batch of its own, after an input of match 0 was processed; the queue is
\* empty, as a further call would find it.
C26_Witness ==
    \E t, u \in Threads :
        /\ t # u
        /\ DrainsMatch(t, 0) /\ DrainsMatch(u, 0)
        /\ matches[0].inputHistory # <<>>
        /\ matchQueues[0] = <<>>

(***************************************************************************)
(* Properties of the lock scopes.                                          *)
(***************************************************************************)
MutexesOf(t) == {x \in DOMAIN mutexes : mutexes[x] = t}

\* thread t waits for a mutex that thread u holds
WaitsOn(t, u) == thr[t].pc = "lock" /\ mutexes[thr[t].want] = u

\* the threads t waits on, directly or through others
RECURSIVE WaitChain(_, _)
WaitChain(ts, n) ==
    IF n = 0 THEN ts
    ELSE WaitChain(ts \cup {u \in DOMAIN thr : \E t \in ts : WaitsOn(t, u)}, n - 1)

Blockers(t) ==
    WaitChain({u \in DOMAIN thr : WaitsOn(t, u)}, Cardinality(DOMAIN thr))

\* C29: no thread holds more than one mutex at a time: a thread that locks
\* a deque's, a queue's, a match's or the pool's wait mutex holds no other,
\* getPendingCount and a submit made by a running task included; a thread
\* that waits for a mutex holds none, and no thread is among the threads it
\* waits on, directly or through others.
C29_OneMutexAtATime ==
    \A t \in DOMAIN thr :
        /\ Cardinality(MutexesOf(t)) <= 1
        /\ thr[t].pc = "lock" => MutexesOf(t) = {}
        /\ t \notin Blockers(t)

\* C29 witness: a worker holds the mutex of the other worker's deque (a
\* steal, or a task's submit) while the owner waits for it, and the main
\* thread holds the wait mutex.
C29_Witness ==
    \E t, u \in Workers :
        /\ t # u
        /\ mutexes[DequeMutex(u)] = t
        /\ thr[u].pc = "lock" /\ thr[u].want = DequeMutex(u)
        /\ mutexes[PoolWaitMutex] = MainThread

(***************************************************************************)
(* Properties of the park and of shutdown.                                 *)
(***************************************************************************)
\* every accepted submit has a finished task: nothing queued, nothing in a
\* worker's hands, one increment of the counter per body
AllExecuted ==
    /\ unfinished = 0
    /\ counter = mloc.expected
    /\ \A w \in Workers : localQueues[w] = <<>> /\ wloc[w].task = NoTask

\* C25: with the workers scheduled fairly and task bodies that return,
\* every task that is in a deque of the running pool is eventually executed,
\* also when it was pushed after a worker had found nothing and before or
\* while that worker sleeps: the sleep ends by its timeout.
C25_EnqueuedTasksRun ==
    /\ (\E w \in Workers : localQueues[w] # <<>>) ~> AllExecuted
    /\ (unfinished > 0) ~> AllExecuted

\* C25 witness: every worker sleeps in its park, having found nothing, while
\* a task pushed since then is in a deque.
C25_Witness ==
    /\ \A w \in Workers : wpc[w] = "parked"
    /\ \E w \in Workers : localQueues[w] # <<>>
    /\ running

\* shutdown has returned to its caller
ShutdownReturned == mpc = "ready" /\ mloc.nShutdown > 0

\* C27: shutdown of a pool to which nothing was submitted terminates,
\* wherever its workers are (polling, stealing or parked): every worker
\* sees running_ false and leaves its loop, the join completes only then,
\* and shutdown returns; no task was ever stolen, steal_count is 0.
C27_IdleShutdown ==
    /\ (mpc = "join") ~> (ShutdownReturned /\ stealCount = 0)
    /\ [](stealCount = 0)
    /\ []((mpc = "joined" \/ ShutdownReturned) =>
             \A w \in Workers : wpc[w] = "done")

\* C27 witness: shutdown has returned; nothing was submitted, every worker
\* has left its loop.
C27_Witness ==
    /\ ShutdownReturned
    /\ mloc.nShutdown = 1
    /\ mloc.nSubmitted = 0
    /\ ~running
    /\ \A w \in Workers : wpc[w] = "done"
    /\ stealCount = 0

(***************************************************************************)
(* Properties of the arrival order.                                        *)
(***************************************************************************)
\* all the inputs client i sends, in the order in which it sends them
ClientInputs(i) == generateBatch(i, 0, InputsPerClient)

\* the interleavings of two sequences: each keeps its order
RECURSIVE Merges(_, _)
Merges(a, b) ==
    IF a = <<>> THEN {b}
    ELSE IF b = <<>> THEN {a}
    ELSE {<<Head(a)>> \o r : r \in Merges(Tail(a), b)}
           \cup {<<Head(b)>> \o r : r \in Merges(a, Tail(b))}

\* the orders in which the inputs of the two clients of match 0 can arrive
ArrivalOrders == Merges(ClientInputs(0), ClientInputs(1))

\* C28: the final state of a match is not determined by the inputs alone.
\* Whenever the pipeline is over, the inputs of the two clients of match 0
\* have arrived in one of their interleavings, and there is another
\* interleaving of the same inputs for which the fully drained match ends in
\* a MatchState different from the one this run has reached.
C28_ArrivalOrderDecides ==
    WaitAllReturned =>
        /\ arrival[0] \in ArrivalOrders
        /\ matches[0].state = SequentialResult(0, arrival[0]).state
        /\ \E b \in ArrivalOrders :
              /\ b # arrival[0]
              /\ SequentialResult(0, b).state # matches[0].state

\* C28 witness: the pipeline is over; the first input to arrive was one of
\* client 1, and match 0 has ended in another state than it does when all
\* inputs of client 0 arrive before those of client 1.
C28_Witness ==
    /\ WaitAllReturned
    /\ arrival[0] # <<>>
    /\ arrival[0][1] = ClientInputs(1)[1]
    /\ matches[0].state #
          SequentialResult(0, ClientInputs(0) \o ClientInputs(1)).state

(***************************************************************************)
(* Properties of the rollback count.                                       *)
(***************************************************************************)
\* C31: rollback_count counts the late inputs and the snapshots appended by
\* process_input. It is 0 on a match that has processed nothing; a call of
\* process_input on a running match adds one when it takes the late-input
\* branch and one when it appends a snapshot, and nothing else; start and an
\* ignored call leave it as it is. So the count never goes down, and a
\* restore of the state from a snapshot does not take it back. (A call
\* appends a snapshot exactly when the record of the call says so: the
\* newest snapshot is then a new one, else the snapshots are untouched.)
C31_RollbackAccounting ==
    /\ [](nCalls = 0 => match.rollbackCount = 0)
    /\ [][match'.rollbackCount >= match.rollbackCount]_vars
    /\ [][(nCalls' = nCalls + 1 /\ match.state.isRunning) =>
            match'.rollbackCount =
                match.rollbackCount
                  + (IF last'.input.tickId < match.state.currentTick THEN 1 ELSE 0)
                  + (IF last'.snapshot THEN 1 ELSE 0)]_vars
    /\ [][(nCalls' = nCalls /\ match' # match) =>
            match'.rollbackCount = match.rollbackCount]_vars
    /\ [][(nCalls' = nCalls + 1 /\ match.state.isRunning) =>
            IF last'.snapshot
            THEN /\ Len(match'.snapshots) =
                       Min(Len(match.snapshots) + 1, MAX_SNAPSHOTS)
                 /\ match'.snapshots[Len(match'.snapshots)].tickId
                       = match'.lastSnapshotTick
                 /\ match'.lastSnapshotTick > match.lastSnapshotTick
            ELSE match'.snapshots = match.snapshots]_vars

\* C31 witness: a late input has just been processed on a match that has
\* evicted snapshots, so that the count exceeds the snapshots it holds, and
\* whose tick a restore has taken back below the count.
C31_Witness ==
    /\ last.branch = "late"
    /\ Len(match.snapshots) = MAX_SNAPSHOTS
    /\ match.snapshots[1].tickId > 0
    /\ match.rollbackCount > MAX_SNAPSHOTS
    /\ match.state.currentTick < match.rollbackCount

(***************************************************************************)
(* Properties of the producer tasks.                                       *)
(***************************************************************************)
\* the workers inside the body of ClientTask(i), from generateBatch to the
\* test of isFinished
InClientBody(i) ==
    {w \in Workers : wloc[w].task = ClientTask(i) /\ wpc[w] \in {"run", "recv", "fin"}}

\* client i has sent all its inputs and no copy of its task is left
ProducerDone(i) ==
    isFinished(clients[i]) /\ Copies(ClientTask(i)) = 0

\* C32: in the pipeline, for every client at most one producer task is
\* queued or executing at any time (the task submits its next copy as its
\* last action, and only when the client is not finished), so no two workers
\* are inside generateBatch of one client at once, and clients_finished
\* counts exactly the clients whose last producer task has returned: one
\* increment per client.
C32_OneProducerPerClient ==
    LET copies == [i \in 0..(NumClients - 1) |-> Copies(ClientTask(i))]
    IN  /\ \A i \in 0..(NumClients - 1) :
              /\ copies[i] <= 1
              /\ Cardinality(InClientBody(i)) <= 1
              /\ clients[i] <= InputsPerClient
        /\ clientsFinished =
              Cardinality({i \in 0..(NumClients - 1) :
                              isFinished(clients[i]) /\ copies[i] = 0})

\* C32 witness: the next copy of the producer of client 0 is already inside
\* its body on one worker while the worker that ran the previous copy and
\* resubmitted it has not yet decremented for it; client 1 is counted as
\* finished.
C32_Witness ==
    /\ \E w, v \in Workers :
          /\ w # v
          /\ wpc[w] = "dec" /\ wloc[w].task = ClientTask(0)
          /\ v \in InClientBody(0)
    /\ clientsFinished = 1
    /\ ProducerDone(1)

====
